---- MODULE Spec2Model ----
(***************************************************************************)
(* A model of the voxnexus session core:                                   *)
(*   - the WebRTC worker entrypoint (apps/worker/main.py, agent_entrypoint)*)
(*     with its room claim, its guardian command handler and its           *)
(*     disconnect cleanup;                                                 *)
(*   - the SIP bridge's takeover command bus (apps/sip-bridge/main.py,     *)
(*     GuardianBridge) shared by several bridge processes through Redis;   *)
(*   - one SIP call's AIConversationHandler (greeting, turns, takeover,    *)
(*     release, operator bridge loop).                                     *)
(* Every coroutine is cut at its awaits: one action runs the code between  *)
(* two suspension points, as the asyncio event loop does.                  *)
(***************************************************************************)
EXTENDS Integers, Sequences, FiniteSets, TLC

(***************************************************************************)
(* Bounds of the model.                                                    *)
(***************************************************************************)
\* data packets delivered to one worker's room handler
MaxDeliver == 2

\* the value used for Python's None
None == "none"

Workers == {"w1", "w2"}

\* messages published on guardian:takeover
MaxPublish == 1

\* messages the broker delivers a second time (at-least-once delivery)
MaxRedeliver == 1

\* commands the listener passes to one call's _handle_takeover
MaxCommands == 2

\* turns of one call's conversation loop
MaxTurns == 2

\* SIP bridge processes, and the calls each of them answers; a call's
\* conversation id is written like the call, and "cx" is the id of a
\* conversation no process holds.
Procs == {"p1", "p2"}
Calls == {"c1", "c2", "c3"}
ProcOf(c) == IF c = "c3" THEN "p2" ELSE "p1"
DeviceOf(c) == IF c = "c1" THEN "d1" ELSE IF c = "c2" THEN "d2" ELSE "d3"
Convs == Calls
Commands == {"takeover", "release"}

(***************************************************************************)
(* Guardian commands of the data channel: (type, timestamp).  The packet   *)
(* "other" is a data packet of another topic.                              *)
(***************************************************************************)
Takeover1 == [topic |-> "guardian_command", type |-> "takeover", ts |-> <<"1">>]
Release2 == [topic |-> "guardian_command", type |-> "release", ts |-> <<"2">>]
Takeover3 == [topic |-> "guardian_command", type |-> "takeover", ts |-> <<"3">>]
OtherPacket == [topic |-> "chat", type |-> "takeover", ts |-> <<"1">>]
Packets == {Takeover1, Release2, Takeover3, OtherPacket}

\* cmd_id = f"{cmd_type}:{cmd_timestamp}": the type, a colon, the
\* timestamp's characters.
CmdId(p) == <<p.type, ":">> \o p.ts

\* the (type, timestamp) pairs of the commands
CmdKey(p) == <<p.type, p.ts>>
CmdKeys == {CmdKey(p) : p \in Packets}

VARIABLES
  \* ---- room-claim service (broker record RoomClaim:<room>)
  roomClaim,        \* the agent instance that holds the room, or None
  \* ---- agent_entrypoint, one per dispatch
  wpc,              \* position of the entrypoint coroutine
  api_key,          \* GUARDIAN_KEY as read by the entrypoint
  claimed,          \* the local `claimed`
  inRoom,           \* ctx.connect() done and the room not yet disconnected
  dataHandler,      \* on_data_received is registered on the room
  discHandler,      \* on_disconnected is registered on the room
  cleanup,          \* _handle_disconnected: "no", "scheduled", "done"
  agent_instance,   \* the nonlocal agent_instance is set
  agent_session,    \* the nonlocal agent_session: a session number or 0
  sessions,         \* the AgentSession objects made so far: their states
  tracks,           \* sessions whose audio track is published in the room
  human_takeover_active,
  processed,        \* _processed_commands
  tasks,            \* the _handle_guardian_command tasks created so far
  \* ---- observation of the worker (not program state)
  claimLog,         \* the replies each dispatch got from claim-room
  everInRoom,       \* the dispatch has connected to the room
  deleteLog,        \* DELETE requests sent to claim-room
  cmdRuns,          \* how often the takeover/release branch ran per cmd id
  tkHandled         \* a takeover was handled and no release since

wrkVars == <<roomClaim, wpc, api_key, claimed, inRoom, dataHandler, discHandler,
             cleanup, agent_instance, agent_session, sessions, tracks,
             human_takeover_active, processed, tasks, claimLog, everInRoom,
             deleteLog, cmdRuns, tkHandled>>

VARIABLES
  \* ---- Redis
  lock,               \* guardian:takeover_lock:<conversation_id> exists
  inbox,              \* messages of guardian:takeover not yet read, per process
  \* ---- GuardianBridge, one per SIP bridge process
  takeover_callbacks, \* _takeover_callbacks: the conversation ids registered
  device_callbacks,   \* _device_callbacks, in insertion order
  lpc,                \* position of _listen_for_takeovers
  lmsg,               \* the message it is handling
  lcallback,          \* the callback it found: a call, or None
  \* ---- the calls, as the command bus sees them
  callSt,             \* "idle", "active", "ending" (in on_session_end), "ended"
  callMuted,          \* AIConversationHandler.muted
  callBridge,         \* AIConversationHandler.livekit_bridge is set
  \* ---- observation of the bus (not program state)
  sent,               \* the messages published so far, in order
  redelivered,        \* messages delivered a second time so far
  cbRuns,             \* per message: callbacks that ran past the duplicate guard
  dropped             \* <<process, message>>: skipped because the lock was held

busVars == <<lock, inbox, takeover_callbacks, device_callbacks, lpc, lmsg, lcallback,
             callSt, callMuted, callBridge, sent, redelivered, cbRuns, dropped>>

\* One SIP call's AIConversationHandler, coroutine by coroutine.
VARIABLES
  running,            \* self.running
  muted,              \* self.muted
  player,             \* what self.player is playing to the caller, or None
  bridgePlaying,      \* _play_bridge_audio's player is playing operator audio
  livekit_bridge,     \* self.livekit_bridge is set
  startPc,            \* start(): "init", "s_tts", "s_play", "done"
  turnPc,             \* _conversation_loop/_process_turn: "none", "listen", ...
  takeoverPc,         \* _handle_takeover: "idle", "h_tts", "h_play", ...
  bridgePc,           \* _run_audio_bridge: "none", "loop", "playing", "cancelling"
  commands,           \* commands the listener has passed to _handle_takeover
  takeoverProcessed,  \* observation: a takeover callback returned, no release since
  steps,              \* observation: the steps of the callback last called, in order
  lastCmd,            \* observation: the callback's last log line on entry
  stopPc,             \* stop(): "no", "st_bridge", "st_db", "stopped"
  inSessions,         \* guardian.sessions holds the conversation
  convStatus,         \* the conversations row: "none", "active", "completed"
  turnNo,             \* turns begun so far
  messages,           \* the rows of the messages table, in insertion order
  transcripts,        \* the transcripts published to the Guardian, in order
  heard,              \* observation: the text the STT returned last
  conversation_history  \* self.conversation_history: the entries, in order

sipVars == <<running, muted, player, bridgePlaying, livekit_bridge, startPc, turnPc,
             takeoverPc, bridgePc, commands, takeoverProcessed, steps, lastCmd,
             stopPc, inSessions, convStatus, turnNo, messages, transcripts, heard,
             conversation_history>>

\* ---- voice activity detection of one recording (AIConversationHandler)
VARIABLES
  recording,           \* the 20 ms frames in record_file: "v" voiced, "s" silent
  last_file_position,  \* frames of record_file already read by _check_vad
  speech_detected,
  speech_frames,
  silence_frames,
  vadPc                \* "poll": the loop polls; "turn": _process_turn runs

vadVars == <<recording, last_file_position, speech_detected, speech_frames,
             silence_frames, vadPc>>

\* ---- the Guardian of one worker (VoxGuardian) and the session record of
\* ---- one SIP call (GuardianBridge.sessions)
VARIABLES
  gpc,                    \* "new", "ready" (constructed), "joined" (on_room_join)
  enable_takeover,        \* GuardianConfig
  enable_risk_detection,  \* GuardianConfig
  alert_webhook,          \* GuardianConfig.alert_webhook is set
  auto_handoff_threshold, \* GuardianConfig, in hundredths
  human_active,           \* VoxGuardian._human_active
  message_count,          \* SessionMetrics.message_count
  highest_risk,           \* SessionMetrics.highest_risk
  risk_events,            \* SessionMetrics.risk_events: the levels of its events
  handoff_triggered,      \* SessionMetrics.handoff_triggered
  max_risk_level,         \* GuardianBridge.sessions[...]["max_risk_level"]
  \* ---- observation (not program state)
  lastRisk,               \* the RiskScore analyze_text returned last
  levelsSeen,                   \* the levels analyze_text has returned in the session
  sipSeen,                \* the levels detect_risk_keywords has returned
  riskAlerts,             \* push_alert("risk", ...) calls that reached the webhook
  takeoverHeld,           \* a takeover command was handled, no release since
  sipPublished            \* what GuardianBridge.on_transcript published last

grdVars == <<gpc, enable_takeover, enable_risk_detection, alert_webhook,
             auto_handoff_threshold, human_active, message_count, highest_risk,
             risk_events, handoff_triggered, max_risk_level, lastRisk, levelsSeen,
             sipSeen, riskAlerts, takeoverHeld, sipPublished>>

\* ---- one invocation of a webhook tool (execute_webhook)
VARIABLES
  hookPc,      \* "idle", "sent" (the request is awaited), "done"
  hookReq,     \* the request: method, secret, payload, header, body on the wire
  hookResult   \* what webhook_handler gave the LLM: a string, or an exception

hookVars == <<hookPc, hookReq, hookResult>>

\* ---- one reply on its way to the TTS (_speak_response)
VARIABLES
  ttsPc,       \* "reply" (the LLM is producing the text), "spoken"
  ttsText,     \* the text handed to _speak_response
  ttsOut       \* the text handed to the TTS provider

ttsVars == <<ttsPc, ttsText, ttsOut>>

\* The configured extensions (rows of sip_devices).
Devices == {"d1", "d2"}

\* Accounts created in one run; background registrations queued per device.
MaxAccounts == 3
MaxQueued == 2

\* ---- the softphones of the bridge (SipBridgeManager.softphones, pjsua accounts)
VARIABLES
  phase,        \* "loading" (lifespan start-up), "serving" (HTTP and Redis listener)
  loaded,       \* the sip_devices rows load_devices_from_db has registered
  softphones,   \* self.softphones: device id -> its account's number, 0 if absent
  accounts,     \* the live pjsua accounts: number, device, current_call set
  accountsCreated,  \* accounts created so far
  registering   \* background tasks queued by POST /devices/{id}/register

devVars == <<phase, loaded, softphones, accounts, accountsCreated, registering>>

\* Webhooks configured for one agent.
MaxWebhooks == 3

\* ---- the prompt and the tools of one worker session (agent_entrypoint)
VARIABLES
  ppc,                 \* "metadata", "lessons", "tools", "agent", "started"
  agent_id,            \* the room metadata named an agent
  has_knowledge_base,
  webhooks,            \* number of webhooks fetch_agent_webhooks returned
  system_prompt,       \* the parts of the prompt, in order
  tools,               \* the tools list, in order
  agent                \* Agent(instructions=..., tools=...)

promptVars == <<ppc, agent_id, has_knowledge_base, webhooks, system_prompt, tools, agent>>

\* The calls of one run of the bridge; the seconds its clock may reach; the
\* times on_call_ended may be scheduled for one call.
CallIds == {"k1", "k2"}
MaxClock == 3
MaxEnded == 2

\* ---- the call table and the call log (SipBridgeManager, sip_call_logs)
VARIABLES
  clock,          \* NOW(), in seconds
  active_calls,   \* self.active_calls: the call ids it holds
  sip_call_logs,  \* the row of each call id (status "none": no row)
  endedRuns       \* times on_call_ended has run for each call

logVars == <<clock, active_calls, sip_call_logs, endedRuns>>

\* Two calls answered by the same softphone (one device id).
Handlers == {"h1", "h2"}

\* ---- start() and stop() of the handlers of one device, and the Supervisor's
\* ---- tables (GuardianBridge.sessions, _takeover_callbacks, _device_callbacks)
VARIABLES
  hStart,            \* start(): "new", "fetch", "create", "publish", "greet", "started"
  hStop,             \* stop(): "no", "recording", "ending", "closing", "stopped"
  conversation_id,   \* self.conversation_id is set
  guardian_sessions, \* guardian.sessions: the handlers whose conversation it holds
  callbacks,         \* guardian._takeover_callbacks, likewise
  device_callback    \* guardian._device_callbacks[device id]: a handler, or None

regVars == <<hStart, hStop, conversation_id, guardian_sessions, callbacks, device_callback>>

(* One VoxNexusCall and the handlers its media callback creates. *)
MaxMedia == 5
HandlerIds == 1..MaxMedia

VARIABLES
  callDisconnected,  \* onCallState has seen PJSIP_INV_STATE_DISCONNECTED
  media_connected,   \* VoxNexusCall.media_connected
  ai_handler,        \* VoxNexusCall.ai_handler: a handler id, or 0 for None
  handlerState,      \* per AIConversationHandler created: "none", "scheduled",
                     \* "running" (start() has set running), "stopped"
  stopScheduled      \* handlers whose stop() coroutine is queued on the loop

mediaVars == <<callDisconnected, media_connected, ai_handler, handlerState, stopScheduled>>

(* The Supervisor's in-memory session of the SIP call.  on_session_start   *)
(* creates it with human_active False; GuardianBridge.on_takeover and      *)
(* on_release, the only writers of the flag, are called from nowhere in    *)
(* the bridge, so no action of the call changes it.                        *)
VARIABLES
  session_human_active  \* guardian.sessions[conversation_id]["human_active"]

sessionVars == <<session_human_active>>

vars == <<wrkVars, busVars, sipVars, vadVars, grdVars, hookVars, ttsVars, devVars, promptVars, logVars, regVars, mediaVars, sessionVars>>

\* what the actions of one part leave alone
notWorker == <<busVars, sipVars, vadVars, grdVars, hookVars, ttsVars, devVars, promptVars, logVars, regVars, mediaVars, sessionVars>>
notBus == <<wrkVars, sipVars, vadVars, grdVars, hookVars, ttsVars, devVars, promptVars, logVars, regVars, mediaVars, sessionVars>>
notSip == <<wrkVars, busVars, vadVars, grdVars, hookVars, ttsVars, devVars, promptVars, logVars, regVars, mediaVars, sessionVars>>
notVad == <<wrkVars, busVars, sipVars, grdVars, hookVars, ttsVars, devVars, promptVars, logVars, regVars, mediaVars, sessionVars>>
notGuardian == <<wrkVars, busVars, sipVars, vadVars, hookVars, ttsVars, devVars, promptVars, logVars, regVars, mediaVars, sessionVars>>
notHook == <<wrkVars, busVars, sipVars, vadVars, grdVars, ttsVars, devVars, promptVars, logVars, regVars, mediaVars, sessionVars>>
notTts == <<wrkVars, busVars, sipVars, vadVars, grdVars, hookVars, devVars, promptVars, logVars, regVars, mediaVars, sessionVars>>
notDevices == <<wrkVars, busVars, sipVars, vadVars, grdVars, hookVars, ttsVars, promptVars, logVars, regVars, mediaVars, sessionVars>>
notPrompt == <<wrkVars, busVars, sipVars, vadVars, grdVars, hookVars, ttsVars, devVars, logVars, regVars, mediaVars, sessionVars>>
notLog == <<wrkVars, busVars, sipVars, vadVars, grdVars, hookVars, ttsVars, devVars, promptVars, regVars, mediaVars, sessionVars>>
notReg == <<wrkVars, busVars, sipVars, vadVars, grdVars, hookVars, ttsVars, devVars, promptVars, logVars, mediaVars, sessionVars>>
notMedia == <<wrkVars, busVars, sipVars, vadVars, grdVars, hookVars, ttsVars, devVars, promptVars, logVars, regVars, sessionVars>>
notSession == <<wrkVars, busVars, sipVars, vadVars, grdVars, hookVars, ttsVars, devVars, promptVars, logVars, regVars, mediaVars>>

(***************************************************************************)
(* The room-claim service: POST writes the record iff it is absent and     *)
(* answers claimed true/false; DELETE removes it iff the stored id is the  *)
(* caller's.                                                               *)
(***************************************************************************)
ClaimPost(holder, w) == IF holder = None THEN w ELSE holder

ClaimDelete(holder, w) == IF holder = w THEN None ELSE holder

(***************************************************************************)
(* agent_entrypoint: the claim before connecting.                          *)
(***************************************************************************)
\* A worker that connects whatever the reply is.
ClaimedAfter_Open(reply) == TRUE

\* The value of `claimed` after a reply; FALSE is the early return.
\* "granted": 200 {claimed: true}; "held": 200 {claimed: false};
\* "non200": another status; "failed": the request raised.
ClaimedAfter(reply) == reply \in {"granted", "non200", "failed"}

\* The reply of the service to a POST that it answers.
ServiceReply(holder) == IF holder = None THEN "granted" ELSE "held"

InitWorker ==
  /\ roomClaim = None
  /\ wpc = [w \in Workers |-> "dispatched"]
  /\ api_key = [w \in Workers |-> FALSE]
  /\ claimed = [w \in Workers |-> FALSE]
  /\ inRoom = [w \in Workers |-> FALSE]
  /\ dataHandler = [w \in Workers |-> FALSE]
  /\ discHandler = [w \in Workers |-> FALSE]
  /\ cleanup = [w \in Workers |-> "no"]
  /\ agent_instance = [w \in Workers |-> FALSE]
  /\ agent_session = [w \in Workers |-> 0]
  /\ sessions = [w \in Workers |-> <<>>]
  /\ tracks = [w \in Workers |-> {}]
  /\ human_takeover_active = [w \in Workers |-> FALSE]
  /\ processed = [w \in Workers |-> {}]
  /\ tasks = [w \in Workers |-> <<>>]
  /\ claimLog = [w \in Workers |-> <<>>]
  /\ everInRoom = [w \in Workers |-> FALSE]
  /\ deleteLog = [w \in Workers |-> 0]
  /\ cmdRuns = [w \in Workers |-> [c \in CmdKeys |-> 0]]
  /\ tkHandled = [w \in Workers |-> FALSE]

\* The listener holds no message.
NoMessage == [conv |-> None, command |-> None, ts |-> 0]

InitBus ==
  /\ lock = [x \in Convs |-> FALSE]
  /\ inbox = [p \in Procs |-> <<>>]
  /\ takeover_callbacks = [p \in Procs |-> {}]
  /\ device_callbacks = [p \in Procs |-> <<>>]
  /\ lpc = [p \in Procs |-> "idle"]
  /\ lmsg = [p \in Procs |-> NoMessage]
  /\ lcallback = [p \in Procs |-> None]
  /\ callSt = [c \in Calls |-> "idle"]
  /\ callMuted = [c \in Calls |-> FALSE]
  /\ callBridge = [c \in Calls |-> FALSE]
  /\ sent = <<>>
  /\ redelivered = 0
  /\ cbRuns = [t \in 1..MaxPublish |-> 0]
  /\ dropped = {}

InitSip ==
  /\ running = FALSE
  /\ muted = FALSE
  /\ player = None
  /\ bridgePlaying = FALSE
  /\ livekit_bridge = FALSE
  /\ startPc = "init"
  /\ turnPc = "none"
  /\ takeoverPc = "idle"
  /\ bridgePc = "none"
  /\ commands = 0
  /\ takeoverProcessed = FALSE
  /\ steps = <<>>
  /\ lastCmd = None
  /\ stopPc = "no"
  /\ inSessions = FALSE
  /\ convStatus = "none"
  /\ turnNo = 0
  /\ messages = <<>>
  /\ transcripts = <<>>
  /\ heard = <<>>
  /\ conversation_history = <<>>

\* _start_recording: a new file, the VAD state reset.
InitVad ==
  /\ recording = <<>>
  /\ last_file_position = 0
  /\ speech_detected = FALSE
  /\ speech_frames = 0
  /\ silence_frames = 0
  /\ vadPc = "poll"

\* No RiskScore yet.
NoRisk == [level |-> "none", score |-> 0]

\* GuardianConfig's defaults, SessionMetrics' defaults, on_session_start.
\* on_transcript has not run: no level, no event.
NothingPublished == [level |-> "none", events |-> <<>>]

InitGuardian ==
  /\ gpc = "new"
  /\ enable_takeover = TRUE
  /\ enable_risk_detection = TRUE
  /\ alert_webhook = FALSE
  /\ auto_handoff_threshold = 80
  /\ human_active = FALSE
  /\ message_count = 0
  /\ highest_risk = "low"
  /\ risk_events = <<>>
  /\ handoff_triggered = FALSE
  /\ max_risk_level = "LOW"
  /\ lastRisk = NoRisk
  /\ levelsSeen = {}
  /\ sipSeen = {}
  /\ riskAlerts = 0
  /\ takeoverHeld = FALSE
  /\ sipPublished = NothingPublished

\* No request made, nothing returned.
NoRequest == [method |-> None, secret |-> None, payload |-> <<>>, signed |-> FALSE,
              signature |-> <<>>, body |-> <<>>, outcome |-> None]
NoResult == [kind |-> None, text |-> None]

InitHook ==
  /\ hookPc = "idle"
  /\ hookReq = NoRequest
  /\ hookResult = NoResult

InitTts ==
  /\ ttsPc = "reply"
  /\ ttsText = <<>>
  /\ ttsOut = <<>>

InitDevices ==
  /\ phase = "loading"
  /\ loaded = {}
  /\ softphones = [d \in Devices |-> 0]
  /\ accounts = {}
  /\ accountsCreated = 0
  /\ registering = [d \in Devices |-> 0]

\* No Agent constructed yet.
NoAgent == [instructions |-> <<>>, tools |-> <<>>]

InitPrompt ==
  /\ ppc = "metadata"
  /\ agent_id = FALSE
  /\ has_knowledge_base = FALSE
  /\ webhooks = 0
  /\ system_prompt = <<"DEFAULT_SYSTEM_PROMPT">>
  /\ tools = <<>>
  /\ agent = NoAgent

\* No row; 0 stands for NULL in the timestamp and duration columns.
NoRow == [status |-> "none", started_at |-> 0, answered_at |-> 0, ended_at |-> 0,
          duration_secs |-> 0]

InitLog ==
  /\ clock = 1
  /\ active_calls = {}
  /\ sip_call_logs = [c \in CallIds |-> NoRow]
  /\ endedRuns = [c \in CallIds |-> 0]

InitReg ==
  /\ hStart = [h \in Handlers |-> "new"]
  /\ hStop = [h \in Handlers |-> "no"]
  /\ conversation_id = [h \in Handlers |-> FALSE]
  /\ guardian_sessions = {}
  /\ callbacks = {}
  /\ device_callback = None

InitMedia ==
  /\ callDisconnected = FALSE
  /\ media_connected = FALSE
  /\ ai_handler = 0
  /\ handlerState = [h \in HandlerIds |-> "none"]
  /\ stopScheduled = {}

InitSession ==
  session_human_active = FALSE

Init ==
  /\ InitWorker
  /\ InitBus
  /\ InitSip
  /\ InitVad
  /\ InitGuardian
  /\ InitHook
  /\ InitTts
  /\ InitDevices
  /\ InitPrompt
  /\ InitLog
  /\ InitReg
  /\ InitMedia
  /\ InitSession

(***************************************************************************)
(* agent_entrypoint up to its return.                                      *)
(***************************************************************************)
\* Without GUARDIAN_KEY no request is made and `claimed` stays FALSE.
\* Otherwise the POST is answered (200), refused (non-200) or raises; a
\* request that raises (a timeout) may or may not have reached the service.
ClaimRoom(w) ==
  /\ wpc[w] = "dispatched"
  /\ \E key \in BOOLEAN :
       /\ api_key' = [api_key EXCEPT ![w] = key]
       /\ \/ /\ ~key
             /\ wpc' = [wpc EXCEPT ![w] = "exited"]
             /\ UNCHANGED <<roomClaim, claimed, claimLog>>
          \/ /\ key
             /\ \E kind \in {"answered", "non200", "failed"}, served \in BOOLEAN :
                  LET reply == IF kind = "answered" THEN ServiceReply(roomClaim) ELSE kind
                      stored == kind = "answered" \/ (kind = "failed" /\ served)
                  IN /\ kind = "non200" => ~served
                     /\ kind = "answered" => served
                     /\ roomClaim' = IF stored THEN ClaimPost(roomClaim, w) ELSE roomClaim
                     /\ claimed' = [claimed EXCEPT ![w] = ClaimedAfter(reply)]
                     /\ wpc' = [wpc EXCEPT ![w] =
                                  IF ClaimedAfter(reply) THEN "claimed" ELSE "exited"]
                     /\ claimLog' = [claimLog EXCEPT ![w] = Append(@, reply)]
  /\ UNCHANGED <<notWorker, inRoom, dataHandler, discHandler, cleanup, agent_instance,
                 agent_session, sessions, tracks, human_takeover_active, processed,
                 tasks, everInRoom, deleteLog, cmdRuns, tkHandled>>

\* await ctx.connect(...)
Connect(w) ==
  /\ wpc[w] = "claimed"
  /\ wpc' = [wpc EXCEPT ![w] = "joined"]
  /\ inRoom' = [inRoom EXCEPT ![w] = TRUE]
  /\ everInRoom' = [everInRoom EXCEPT ![w] = TRUE]
  /\ UNCHANGED <<notWorker, roomClaim, api_key, claimed, dataHandler, discHandler, cleanup,
                 agent_instance, agent_session, sessions, tracks,
                 human_takeover_active, processed, tasks, claimLog, deleteLog,
                 cmdRuns, tkHandled>>

\* after guardian.on_room_join: @ctx.room.on("data_received")
RegisterDataHandler(w) ==
  /\ wpc[w] = "joined"
  /\ wpc' = [wpc EXCEPT ![w] = "config"]
  /\ dataHandler' = [dataHandler EXCEPT ![w] = TRUE]
  /\ UNCHANGED <<notWorker, roomClaim, api_key, claimed, inRoom, discHandler, cleanup,
                 agent_instance, agent_session, sessions, tracks,
                 human_takeover_active, processed, tasks, claimLog, everInRoom,
                 deleteLog, cmdRuns, tkHandled>>

\* after the configuration awaits: agent_instance = agent;
\* session = AgentSession(); agent_session = session; await session.start(...)
CreateSession(w) ==
  /\ wpc[w] = "config"
  /\ inRoom[w]
  /\ wpc' = [wpc EXCEPT ![w] = "starting"]
  /\ agent_instance' = [agent_instance EXCEPT ![w] = TRUE]
  /\ sessions' = [sessions EXCEPT ![w] = Append(@, "new")]
  /\ agent_session' = [agent_session EXCEPT ![w] = Len(sessions[w]) + 1]
  /\ UNCHANGED <<notWorker, roomClaim, api_key, claimed, inRoom, dataHandler, discHandler, cleanup,
                 tracks, human_takeover_active, processed, tasks, claimLog,
                 everInRoom, deleteLog, cmdRuns, tkHandled>>

\* session.start(...) returns on session s: a new session runs and publishes
\* its audio track.  What start() does with a session that shutdown() reached
\* first is the library's: it stays closed, or it runs.
StartOutcomes(state) == IF state = "new" THEN {"running"} ELSE {"closed", "running"}

SessionStarted(w) ==
  /\ wpc[w] = "starting"
  /\ inRoom[w]
  /\ \E st \in StartOutcomes(sessions[w][1]) :
       /\ sessions' = [sessions EXCEPT ![w][1] = st]
       /\ tracks' = [tracks EXCEPT ![w] = IF st = "running" THEN @ \cup {1} ELSE @]
  /\ wpc' = [wpc EXCEPT ![w] = "greeting"]
  /\ UNCHANGED <<notWorker, roomClaim, api_key, claimed, inRoom, dataHandler, discHandler, cleanup,
                 agent_instance, agent_session, human_takeover_active, processed,
                 tasks, claimLog, everInRoom, deleteLog, cmdRuns, tkHandled>>

\* await publish_data(guardian_status); await session.say(greeting);
\* @ctx.room.on("disconnected"); the entrypoint returns.
Greeted(w) ==
  /\ wpc[w] = "greeting"
  /\ inRoom[w]
  /\ wpc' = [wpc EXCEPT ![w] = "active"]
  /\ discHandler' = [discHandler EXCEPT ![w] = TRUE]
  /\ UNCHANGED <<notWorker, roomClaim, api_key, claimed, inRoom, dataHandler, cleanup,
                 agent_instance, agent_session, sessions, tracks,
                 human_takeover_active, processed, tasks, claimLog, everInRoom,
                 deleteLog, cmdRuns, tkHandled>>

\* An await of the set-up raises (Agent(...), session.start, publish_data,
\* session.say are in no try block): the entrypoint ends with the exception.
SetupFails(w) ==
  /\ wpc[w] \in {"config", "starting", "greeting"}
  /\ wpc' = [wpc EXCEPT ![w] = "failed"]
  /\ UNCHANGED <<notWorker, roomClaim, api_key, claimed, inRoom, dataHandler, discHandler, cleanup,
                 agent_instance, agent_session, sessions, tracks,
                 human_takeover_active, processed, tasks, claimLog, everInRoom,
                 deleteLog, cmdRuns, tkHandled>>

(***************************************************************************)
(* The room's "disconnected" event and _handle_disconnected.               *)
(***************************************************************************)
\* on_disconnected schedules the cleanup, when it is registered.
RoomDisconnected(w) ==
  /\ inRoom[w]
  /\ inRoom' = [inRoom EXCEPT ![w] = FALSE]
  /\ cleanup' = [cleanup EXCEPT ![w] = IF discHandler[w] THEN "scheduled" ELSE @]
  /\ UNCHANGED <<notWorker, roomClaim, wpc, api_key, claimed, dataHandler, discHandler,
                 agent_instance, agent_session, sessions, tracks,
                 human_takeover_active, processed, tasks, claimLog, everInRoom,
                 deleteLog, cmdRuns, tkHandled>>

\* if claimed and api_key: DELETE {roomName, agentId}; a failure is logged.
ReleasesClaim(w) == claimed[w] /\ api_key[w]

HandleDisconnected(w) ==
  /\ cleanup[w] = "scheduled"
  /\ cleanup' = [cleanup EXCEPT ![w] = "done"]
  /\ IF ReleasesClaim(w)
       THEN /\ deleteLog' = [deleteLog EXCEPT ![w] = @ + 1]
            /\ \E ok \in BOOLEAN :
                 roomClaim' = IF ok THEN ClaimDelete(roomClaim, w) ELSE roomClaim
       ELSE UNCHANGED <<deleteLog, roomClaim>>
  /\ UNCHANGED <<notWorker, wpc, api_key, claimed, inRoom, dataHandler, discHandler,
                 agent_instance, agent_session, sessions, tracks,
                 human_takeover_active, processed, tasks, claimLog, everInRoom,
                 cmdRuns, tkHandled>>

(***************************************************************************)
(* Guardian commands: on_data_received creates one task per data packet;   *)
(* _handle_guardian_command is cut at its awaits.                          *)
(***************************************************************************)
claimVars == <<roomClaim, api_key, claimed, claimLog, deleteLog>>
entryVars == <<wpc, inRoom, dataHandler, discHandler, cleanup, everInRoom>>

\* asyncio.create_task(_handle_guardian_command(data_packet))
on_data_received(w, p) ==
  /\ inRoom[w]
  /\ dataHandler[w]
  /\ Len(tasks[w]) < MaxDeliver
  /\ tasks' = [tasks EXCEPT ![w] = Append(@, [pkt |-> p, pc |-> "new", sess |-> 0])]
  /\ UNCHANGED <<notWorker, claimVars, entryVars, agent_instance, agent_session, sessions, tracks,
                 human_takeover_active, processed, cmdRuns, tkHandled>>

\* if cmd_id in _processed_commands: return
IsDuplicate(seen, id) == id \in seen

\* A handler that forgets the command ids it has seen.
MarkProcessed_Skip(seen, id) == seen

\* _processed_commands.add(cmd_id)
MarkProcessed(seen, id) == seen \cup {id}

SetTask(w, i, pc) == [tasks EXCEPT ![w][i].pc = pc]

\* The task's first run, up to its first await: the topic filter, the
\* deduplication, and the synchronous head of the takeover or release branch.
HandleIgnored(w, i) ==
  /\ tasks[w][i].pc = "new"
  /\ \/ tasks[w][i].pkt.topic # "guardian_command"
     \/ IsDuplicate(processed[w], CmdId(tasks[w][i].pkt))
  /\ tasks' = SetTask(w, i, "done")
  /\ UNCHANGED <<notWorker, claimVars, entryVars, agent_instance, agent_session, sessions, tracks,
                 human_takeover_active, processed, cmdRuns, tkHandled>>

\* takeover: human_takeover_active = True; with a session, await
\* interrupt(), say(...), sleep(2.0); without one, go on to the tracks.
HandleTakeover(w, i) ==
  LET p == tasks[w][i].pkt IN
  /\ tasks[w][i].pc = "new"
  /\ p.topic = "guardian_command"
  /\ ~IsDuplicate(processed[w], CmdId(p))
  /\ p.type = "takeover"
  /\ processed' = [processed EXCEPT ![w] = MarkProcessed(@, CmdId(p))]
  /\ cmdRuns' = [cmdRuns EXCEPT ![w][CmdKey(p)] = @ + 1]
  /\ human_takeover_active' = [human_takeover_active EXCEPT ![w] = TRUE]
  /\ tasks' = SetTask(w, i, IF agent_session[w] # 0 THEN "t_announce" ELSE "t_unpublish")
  /\ UNCHANGED <<notWorker, claimVars, entryVars, agent_instance, agent_session, sessions, tracks,
                 tkHandled>>

\* after the announcement: agent_session.shutdown(); agent_session = None.
\* When another handler has set agent_session to None meanwhile, the call
\* raises and the outer except ends the handler.
TakeoverShutdown(w, i) ==
  /\ tasks[w][i].pc = "t_announce"
  /\ IF agent_session[w] = 0
       THEN /\ tasks' = SetTask(w, i, "done")
            /\ UNCHANGED <<sessions, agent_session>>
       ELSE /\ sessions' = [sessions EXCEPT ![w][agent_session[w]] = "closed"]
            /\ agent_session' = [agent_session EXCEPT ![w] = 0]
            /\ tasks' = SetTask(w, i, "t_unpublish")
  /\ UNCHANGED <<notWorker, claimVars, entryVars, agent_instance, tracks, human_takeover_active,
                 processed, cmdRuns, tkHandled>>

\* every publication of the local participant is muted and unpublished
TakeoverUnpublish(w, i) ==
  /\ tasks[w][i].pc = "t_unpublish"
  /\ tracks' = [tracks EXCEPT ![w] = {}]
  /\ tasks' = SetTask(w, i, "t_notify")
  /\ UNCHANGED <<notWorker, claimVars, entryVars, agent_instance, agent_session, sessions,
                 human_takeover_active, processed, cmdRuns, tkHandled>>

\* guardian.on_human_takeover; publish_data(status human_active)
TakeoverNotify(w, i) ==
  /\ tasks[w][i].pc = "t_notify"
  /\ tasks' = SetTask(w, i, "done")
  /\ tkHandled' = [tkHandled EXCEPT ![w] = TRUE]
  /\ UNCHANGED <<notWorker, claimVars, entryVars, agent_instance, agent_session, sessions, tracks,
                 human_takeover_active, processed, cmdRuns>>

\* release: human_takeover_active = False; the session is recreated when it
\* is None and the agent exists, re-enabled when it exists.
HandleRelease(w, i) ==
  LET p == tasks[w][i].pkt
      n == Len(sessions[w]) + 1
  IN
  /\ tasks[w][i].pc = "new"
  /\ p.topic = "guardian_command"
  /\ ~IsDuplicate(processed[w], CmdId(p))
  /\ p.type = "release"
  /\ processed' = [processed EXCEPT ![w] = MarkProcessed(@, CmdId(p))]
  /\ cmdRuns' = [cmdRuns EXCEPT ![w][CmdKey(p)] = @ + 1]
  /\ human_takeover_active' = [human_takeover_active EXCEPT ![w] = FALSE]
  /\ tkHandled' = [tkHandled EXCEPT ![w] = FALSE]
  /\ IF agent_session[w] = 0 /\ agent_instance[w]
       THEN /\ sessions' = [sessions EXCEPT ![w] = Append(@, "new")]
            /\ agent_session' = [agent_session EXCEPT ![w] = n]
            /\ tasks' = [tasks EXCEPT ![w][i].pc = "r_start", ![w][i].sess = n]
       ELSE /\ tasks' = SetTask(w, i, "r_notify")
            /\ UNCHANGED <<sessions, agent_session>>
  /\ UNCHANGED <<notWorker, claimVars, entryVars, agent_instance, tracks>>

\* await agent_session.start(agent_instance, room) returns; then
\* agent_session.say(...) reads the nonlocal again, which raises when a
\* takeover has set it to None meanwhile.
ReleaseStarted(w, i) ==
  LET s == tasks[w][i].sess IN
  /\ tasks[w][i].pc = "r_start"
  /\ \E st \in StartOutcomes(sessions[w][s]) :
       /\ sessions' = [sessions EXCEPT ![w][s] = st]
       /\ tracks' = [tracks EXCEPT ![w] = IF st = "running" THEN @ \cup {s} ELSE @]
  /\ tasks' = SetTask(w, i, IF agent_session[w] = 0 THEN "done" ELSE "r_notify")
  /\ UNCHANGED <<notWorker, claimVars, entryVars, agent_instance, agent_session,
                 human_takeover_active, processed, cmdRuns, tkHandled>>

\* say("I'm back..."), guardian.on_human_release, publish_data(status ai_active)
ReleaseNotify(w, i) ==
  /\ tasks[w][i].pc = "r_notify"
  /\ tasks' = SetTask(w, i, "done")
  /\ UNCHANGED <<notWorker, claimVars, entryVars, agent_instance, agent_session, sessions, tracks,
                 human_takeover_active, processed, cmdRuns, tkHandled>>

TaskIds(w) == 1..Len(tasks[w])

GuardianCommand(w) ==
  \/ \E p \in Packets : on_data_received(w, p)
  \/ \E i \in TaskIds(w) : HandleIgnored(w, i)
  \/ \E i \in TaskIds(w) : HandleTakeover(w, i)
  \/ \E i \in TaskIds(w) : TakeoverShutdown(w, i)
  \/ \E i \in TaskIds(w) : TakeoverUnpublish(w, i)
  \/ \E i \in TaskIds(w) : TakeoverNotify(w, i)
  \/ \E i \in TaskIds(w) : HandleRelease(w, i)
  \/ \E i \in TaskIds(w) : ReleaseStarted(w, i)
  \/ \E i \in TaskIds(w) : ReleaseNotify(w, i)

Entrypoint(w) ==
  \/ ClaimRoom(w)
  \/ Connect(w)
  \/ RegisterDataHandler(w)
  \/ CreateSession(w)
  \/ SessionStarted(w)
  \/ Greeted(w)
  \/ SetupFails(w)
  \/ RoomDisconnected(w)
  \/ HandleDisconnected(w)

\* The dispatches for one room: they share nothing but the claim record.
NextClaim == \E w \in Workers : Entrypoint(w)

SpecClaim == Init /\ [][NextClaim]_vars

\* One dispatch with the guardian commands of its room.
Commanded == {"w1"}

NextWorker == \E w \in Commanded : Entrypoint(w) \/ GuardianCommand(w)

SpecWorker == Init /\ [][NextWorker]_vars

(***************************************************************************)
(* The takeover command bus: GuardianBridge._listen_for_takeovers in each  *)
(* SIP bridge process, the lock in Redis, and the calls that register and  *)
(* unregister their _handle_takeover callback.                             *)
(***************************************************************************)
Range(q) == {q[k] : k \in 1..Len(q)}

\* dict[k] = v on an insertion-ordered dict: a present key keeps its place.
DictSet(q, k, v) ==
  IF \E i \in 1..Len(q) : q[i].dev = k
  THEN [i \in 1..Len(q) |-> IF q[i].dev = k THEN [dev |-> k, cb |-> v] ELSE q[i]]
  ELSE Append(q, [dev |-> k, cb |-> v])

\* dict.pop(k, None)
DictPop(q, k) == SelectSeq(q, LAMBDA e : e.dev # k)

\* A command is published: every subscribed process gets the message.
Publish(x, cmd) ==
  LET m == [conv |-> x, command |-> cmd, ts |-> Len(sent) + 1] IN
  /\ Len(sent) < MaxPublish
  /\ sent' = Append(sent, m)
  /\ inbox' = [p \in Procs |-> Append(inbox[p], m)]
  /\ UNCHANGED <<notBus, lock, takeover_callbacks, device_callbacks, lpc, lmsg,
                 lcallback, callSt, callMuted, callBridge, redelivered, cbRuns, dropped>>

\* The broker delivers a published message to a process once more.
Redeliver(p, m) ==
  /\ redelivered < MaxRedeliver
  /\ m \in Range(sent)
  /\ redelivered' = redelivered + 1
  /\ inbox' = [inbox EXCEPT ![p] = Append(@, m)]
  /\ UNCHANGED <<notBus, lock, takeover_callbacks, device_callbacks, lpc, lmsg,
                 lcallback, callSt, callMuted, callBridge, sent, cbRuns, dropped>>

\* A listener that never falls back to a device callback.
LookupCallback_NoFallback(p, x) == IF x \in takeover_callbacks[p] THEN x ELSE None

\* The callback for conversation x in process p: the one registered for x,
\* else the first registered device callback, else None.
LookupCallback(p, x) ==
  IF x \in takeover_callbacks[p] THEN x
  ELSE IF device_callbacks[p] # <<>> THEN Head(device_callbacks[p]).cb
  ELSE None

\* _handle_takeover's guard: a takeover while muted with a bridge returns.
TakeoverAlreadyActive(c, mute) == mute /\ callMuted[c] /\ callBridge[c]

\* A listener that deletes the lock key it failed to set.
ListenLocked_Deletes(p) ==
  /\ lpc[p] = "idle"
  /\ inbox[p] # <<>>
  /\ lock[Head(inbox[p]).conv]
  /\ inbox' = [inbox EXCEPT ![p] = Tail(@)]
  /\ dropped' = dropped \cup {<<p, Head(inbox[p]).ts>>}
  /\ lock' = [lock EXCEPT ![Head(inbox[p]).conv] = FALSE]
  /\ UNCHANGED <<notBus, takeover_callbacks, device_callbacks, lpc, lmsg,
                 lcallback, callSt, callMuted, callBridge, sent, redelivered,
                 cbRuns>>

\* SET lock NX EX 30 fails: the message is skipped.
ListenLocked(p) ==
  /\ lpc[p] = "idle"
  /\ inbox[p] # <<>>
  /\ lock[Head(inbox[p]).conv]
  /\ inbox' = [inbox EXCEPT ![p] = Tail(@)]
  /\ dropped' = dropped \cup {<<p, Head(inbox[p]).ts>>}
  /\ UNCHANGED <<notBus, lock, takeover_callbacks, device_callbacks, lpc, lmsg,
                 lcallback, callSt, callMuted, callBridge, sent, redelivered,
                 cbRuns>>

\* SET lock NX EX 30 succeeds; the callback is looked up and, when there is
\* one, called: it runs up to its first await (the guard, self.muted = mute).
ListenAcquire(p) ==
  /\ lpc[p] = "idle"
  /\ inbox[p] # <<>>
  /\ LET m == Head(inbox[p])
         cb == LookupCallback(p, m.conv)
         mute == (m.command = "takeover")
         runs == cb # None /\ ~TakeoverAlreadyActive(cb, mute)
     IN /\ ~lock[m.conv]
        /\ lock' = [lock EXCEPT ![m.conv] = TRUE]
        /\ inbox' = [inbox EXCEPT ![p] = Tail(@)]
        /\ lmsg' = [lmsg EXCEPT ![p] = m]
        /\ lcallback' = [lcallback EXCEPT ![p] = cb]
        /\ lpc' = [lpc EXCEPT ![p] = IF runs THEN "callback" ELSE "finally"]
        /\ callMuted' = IF runs THEN [callMuted EXCEPT ![cb] = mute] ELSE callMuted
        /\ cbRuns' = IF runs THEN [cbRuns EXCEPT ![m.ts] = @ + 1] ELSE cbRuns
  /\ UNCHANGED <<notBus, takeover_callbacks, device_callbacks, callSt, callBridge,
                 sent, redelivered, dropped>>

\* The callback returns: a takeover has connected the bridge or has failed
\* to (livekit_bridge = None); a release has disconnected it.
CallbackReturn(p) ==
  /\ lpc[p] = "callback"
  /\ \E ok \in BOOLEAN :
       callBridge' = [callBridge EXCEPT ![lcallback[p]] =
                        lmsg[p].command = "takeover" /\ ok]
  /\ lpc' = [lpc EXCEPT ![p] = "finally"]
  /\ UNCHANGED <<notBus, lock, inbox, takeover_callbacks, device_callbacks, lmsg,
                 lcallback, callSt, callMuted, sent, redelivered, cbRuns, dropped>>

\* finally: await self.redis.delete(lock_key)
ReleaseLock(p) ==
  /\ lpc[p] = "finally"
  /\ lock' = [lock EXCEPT ![lmsg[p].conv] = FALSE]
  /\ lpc' = [lpc EXCEPT ![p] = "idle"]
  /\ lmsg' = [lmsg EXCEPT ![p] = NoMessage]
  /\ lcallback' = [lcallback EXCEPT ![p] = None]
  /\ UNCHANGED <<notBus, inbox, takeover_callbacks, device_callbacks, callSt,
                 callMuted, callBridge, sent, redelivered, cbRuns, dropped>>

\* A key set without EX: it never runs out.
LockExpire_Never(x) == lock[x] /\ FALSE /\ UNCHANGED vars

\* The lock's TTL (EX 30) runs out.
LockExpire(x) ==
  /\ lock[x]
  /\ lock' = [lock EXCEPT ![x] = FALSE]
  /\ UNCHANGED <<notBus, inbox, takeover_callbacks, device_callbacks, lpc, lmsg,
                 lcallback, callSt, callMuted, callBridge, sent, redelivered,
                 cbRuns, dropped>>

\* AIConversationHandler.start: guardian.register_takeover_callback(
\*   conversation_id, self._handle_takeover, device_id)
register_takeover_callback(c) ==
  /\ callSt[c] = "idle"
  /\ callSt' = [callSt EXCEPT ![c] = "active"]
  /\ takeover_callbacks' = [takeover_callbacks EXCEPT ![ProcOf(c)] = @ \cup {c}]
  /\ device_callbacks' = [device_callbacks EXCEPT ![ProcOf(c)] = DictSet(@, DeviceOf(c), c)]
  /\ UNCHANGED <<notBus, lock, inbox, lpc, lmsg, lcallback, callMuted, callBridge,
                 sent, redelivered, cbRuns, dropped>>

\* AIConversationHandler.stop: the bridge is disconnected, then
\* on_session_end deletes the lock key of the conversation ...
on_session_end(c) ==
  /\ callSt[c] = "active"
  /\ callSt' = [callSt EXCEPT ![c] = "ending"]
  /\ callBridge' = [callBridge EXCEPT ![c] = FALSE]
  /\ lock' = [lock EXCEPT ![c] = FALSE]
  /\ UNCHANGED <<notBus, inbox, takeover_callbacks, device_callbacks, lpc, lmsg,
                 lcallback, callMuted, sent, redelivered, cbRuns, dropped>>

\* ... and, after publishing session_end, unregisters the callback.
unregister_takeover_callback(c) ==
  /\ callSt[c] = "ending"
  /\ callSt' = [callSt EXCEPT ![c] = "ended"]
  /\ takeover_callbacks' = [takeover_callbacks EXCEPT ![ProcOf(c)] = @ \ {c}]
  /\ device_callbacks' = [device_callbacks EXCEPT ![ProcOf(c)] = DictPop(@, DeviceOf(c))]
  /\ UNCHANGED <<notBus, lock, inbox, lpc, lmsg, lcallback, callMuted, callBridge,
                 sent, redelivered, cbRuns, dropped>>

NextBus ==
  \/ \E x \in Convs, cmd \in Commands : Publish(x, cmd)
  \/ \E p \in Procs, m \in Range(sent) : Redeliver(p, m)
  \/ \E p \in Procs : ListenLocked(p)
  \/ \E p \in Procs : ListenAcquire(p)
  \/ \E p \in Procs : CallbackReturn(p)
  \/ \E p \in Procs : ReleaseLock(p)
  \/ \E x \in Convs : LockExpire(x)
  \/ \E c \in Calls : register_takeover_callback(c)
  \/ \E c \in Calls : on_session_end(c)
  \/ \E c \in Calls : unregister_takeover_callback(c)

SpecBus == Init /\ [][NextBus]_vars

\* The process dies between its SET and its DELETE of the lock key.
Crash(p) ==
  /\ lpc[p] \in {"callback", "finally"}
  /\ lpc' = [lpc EXCEPT ![p] = "crashed"]
  /\ UNCHANGED <<notBus, lock, inbox, takeover_callbacks, device_callbacks, lmsg,
                 lcallback, callSt, callMuted, callBridge, sent, redelivered,
                 cbRuns, dropped>>

\* Two processes and the commands for one conversation, answered by a call
\* of the first; every message is delivered once to each process, and either
\* process may die while it holds the lock.
Contended == {"c1"}

NextLock ==
  \/ \E x \in Contended, cmd \in Commands : Publish(x, cmd)
  \/ \E p \in Procs : ListenLocked(p)
  \/ \E p \in Procs : ListenAcquire(p)
  \/ \E p \in Procs : CallbackReturn(p)
  \/ \E p \in Procs : ReleaseLock(p)
  \/ \E p \in Procs : Crash(p)
  \/ \E x \in Contended : LockExpire(x)
  \/ \E c \in Contended : register_takeover_callback(c)
  \/ \E c \in Contended : on_session_end(c)
  \/ \E c \in Contended : unregister_takeover_callback(c)

\* The event loop runs a coroutine that can go on; Redis expires a key whose
\* TTL has run out.
LockFairness ==
  /\ \A p \in Procs : WF_vars(CallbackReturn(p)) /\ WF_vars(ReleaseLock(p))
  /\ \A x \in Contended : WF_vars(LockExpire(x))

SpecLock == Init /\ [][NextLock]_vars /\ LockFairness

\* One process on its own, with the calls it answers: its listener never
\* finds the lock held, so every message reaches the callback look-up.
Alone == {"p1"}
CallsOf(ps) == {c \in Calls : ProcOf(c) \in ps}

NextLookup ==
  \/ \E x \in Convs, cmd \in Commands : Publish(x, cmd)
  \/ \E p \in Alone, m \in Range(sent) : Redeliver(p, m)
  \/ \E p \in Alone : ListenAcquire(p)
  \/ \E p \in Alone : CallbackReturn(p)
  \/ \E p \in Alone : ReleaseLock(p)
  \/ \E x \in Convs : LockExpire(x)
  \/ \E c \in CallsOf(Alone) : register_takeover_callback(c)
  \/ \E c \in CallsOf(Alone) : on_session_end(c)
  \/ \E c \in CallsOf(Alone) : unregister_takeover_callback(c)

SpecLookup == Init /\ [][NextLookup]_vars

(***************************************************************************)
(* One SIP call: start(), the conversation loop and its turns, the         *)
(* takeover callback and the operator audio bridge.  Every coroutine is    *)
(* cut at its awaits.  self.player is the one AudioMediaPlayer the handler *)
(* holds: assigning a new one drops the old object, which ends its         *)
(* playback; _play_bridge_audio plays through a player of its own.         *)
(***************************************************************************)
sipCore == <<running, muted, livekit_bridge, commands, takeoverProcessed>>

\* what the callback's log and the tables hold
sipLog == <<steps, lastCmd>>
sipDb == <<stopPc, inSessions, convStatus, turnNo, messages, transcripts, heard,
           conversation_history>>

\* start() up to the greeting's TTS request: running, the conversation row
\* (the INSERT may fail, conversation_id then stays None), and with a
\* conversation_id on_session_start and register_takeover_callback.
StartCall ==
  /\ startPc = "init"
  /\ running' = TRUE
  /\ startPc' = "s_tts"
  /\ \E created \in BOOLEAN :
       /\ convStatus' = IF created THEN "active" ELSE "none"
       /\ inSessions' = created
  /\ UNCHANGED <<notSip, muted, player, bridgePlaying, livekit_bridge, turnPc,
                 takeoverPc, bridgePc, commands, takeoverProcessed, sipLog,
                 stopPc, turnNo, messages, transcripts, heard,
                 conversation_history>>

\* _speak_response(greeting): the TTS answers; with audio, _play_audio
\* creates self.player and starts it.
GreetingSynthesized ==
  /\ startPc = "s_tts"
  /\ \E audio \in BOOLEAN :
       /\ player' = IF audio THEN "greeting" ELSE player
       /\ startPc' = IF audio THEN "s_play" ELSE "done"
       /\ turnPc' = IF audio THEN turnPc ELSE "listen"
  /\ UNCHANGED <<notSip, sipCore, sipLog, sipDb, bridgePlaying, takeoverPc, bridgePc>>

\* _play_audio wakes: self.player.stopTransmit, self.player = None (on a
\* player already None the AttributeError is caught); the loop task starts.
GreetingPlayed ==
  /\ startPc = "s_play"
  /\ player' = None
  /\ startPc' = "done"
  /\ turnPc' = "listen"
  /\ UNCHANGED <<notSip, sipCore, sipLog, sipDb, bridgePlaying, takeoverPc, bridgePc>>

\* on_transcript: a conversation no longer in guardian.sessions is skipped
\* without a word, otherwise the transcript is published.
on_transcript(speaker) ==
  IF inSessions THEN Append(transcripts, [role |-> speaker, turn |-> turnNo])
  ELSE transcripts

\* _save_message: nothing without a conversation_id; the INSERT does not look
\* at the conversation's status, and its failure is logged and swallowed.
_save_message(role, ok) ==
  IF convStatus # "none" /\ ok
    THEN Append(messages, [role |-> role, turn |-> turnNo,
                           late |-> convStatus = "completed"])
    ELSE messages

\* What the STT may return: nothing, blanks around one letter, two letters,
\* two letters around a blank.
Texts == {<<>>, <<" ", "h", " ">>, <<"h", "i">>, <<"h", " ", "i">>}

\* str.strip(): leading and trailing blanks go.
RECURSIVE Strip(_)
Strip(t) ==
  IF t = <<>> THEN t
  ELSE IF Head(t) = " " THEN Strip(Tail(t))
  ELSE IF t[Len(t)] = " " THEN Strip(SubSeq(t, 1, Len(t) - 1))
  ELSE t

IsEmptyTranscript_NoStrip(t) == Len(t) < 2

\* not transcript or len(transcript.strip()) < 2
IsEmptyTranscript(t) == t = <<>> \/ Len(Strip(t)) < 2

\* _check_vad() is true: _process_turn stops recording and transcribes.
TurnBegins ==
  /\ turnPc = "listen"
  /\ running
  /\ turnNo < MaxTurns
  /\ turnNo' = turnNo + 1
  /\ turnPc' = "t_stt"
  /\ UNCHANGED <<notSip, sipCore, sipLog, player, bridgePlaying, startPc, takeoverPc,
                 bridgePc, stopPc, inSessions, convStatus, messages, transcripts, heard,
                 conversation_history>>

\* The transcript arrives: empty ends the turn, otherwise it goes to the
\* Guardian.
Transcribed ==
  /\ turnPc = "t_stt"
  /\ \E t \in Texts :
       /\ heard' = t
       /\ turnPc' = IF IsEmptyTranscript(t) THEN "listen" ELSE "t_user"
       /\ transcripts' = IF IsEmptyTranscript(t) THEN transcripts
                         ELSE on_transcript("user")
  /\ UNCHANGED <<notSip, sipCore, sipLog, player, bridgePlaying, startPc, takeoverPc,
                 bridgePc, stopPc, inSessions, convStatus, turnNo, messages,
                 conversation_history>>

\* _save_message("user", transcript) returns.
UserSaved ==
  /\ turnPc = "t_user"
  /\ \E ok \in BOOLEAN : messages' = _save_message("user", ok)
  /\ turnPc' = "t_saved"
  /\ UNCHANGED <<notSip, sipCore, sipLog, player, bridgePlaying, startPc, takeoverPc,
                 bridgePc, stopPc, inSessions, convStatus, turnNo, transcripts, heard,
                 conversation_history>>

\* if self.muted: ... return, else _get_ai_response, which first appends
\* the user's message to the history.
MutedBeforeLLM ==
  /\ turnPc = "t_saved"
  /\ turnPc' = IF muted THEN "listen" ELSE "t_llm"
  /\ conversation_history' =
       IF muted THEN conversation_history
       ELSE Append(conversation_history, [role |-> "user", turn |-> turnNo])
  /\ UNCHANGED <<notSip, sipCore, sipLog, player, bridgePlaying, startPc,
                 takeoverPc, bridgePc, stopPc, inSessions, convStatus, turnNo,
                 messages, transcripts, heard>>

\* _get_ai_response returns: with status 200 the answer, appended to the
\* history; without an API key, with another status or after an exception a
\* fixed utterance or the fallback, and no history entry.  The response
\* goes to the Guardian.
LLMAnswered ==
  /\ turnPc = "t_llm"
  /\ turnPc' = "t_reply"
  /\ transcripts' = on_transcript("assistant")
  /\ \E answered \in BOOLEAN :
       conversation_history' =
         IF answered
         THEN Append(conversation_history, [role |-> "assistant", turn |-> turnNo])
         ELSE conversation_history
  /\ UNCHANGED <<notSip, sipCore, sipLog, player, bridgePlaying, startPc, takeoverPc,
                 bridgePc, stopPc, inSessions, convStatus, turnNo, messages, heard>>

\* _save_message("assistant", response) returns.
AssistantSaved ==
  /\ turnPc = "t_reply"
  /\ \E ok \in BOOLEAN : messages' = _save_message("assistant", ok)
  /\ turnPc' = "t_answered"
  /\ UNCHANGED <<notSip, sipCore, sipLog, player, bridgePlaying, startPc, takeoverPc,
                 bridgePc, stopPc, inSessions, convStatus, turnNo, transcripts, heard,
                 conversation_history>>

\* if self.muted: ... return, else _speak_response(response).
MutedBeforeTTS ==
  /\ turnPc = "t_answered"
  /\ turnPc' = IF muted THEN "listen" ELSE "t_tts"
  /\ UNCHANGED <<notSip, sipCore, sipLog, sipDb, player, bridgePlaying, startPc,
                 takeoverPc, bridgePc>>

\* _speak_response(response): the TTS answers, _play_audio starts.
ReplySynthesized ==
  /\ turnPc = "t_tts"
  /\ \E audio \in BOOLEAN :
       /\ player' = IF audio THEN "reply" ELSE player
       /\ turnPc' = IF audio THEN "t_play" ELSE "listen"
  /\ UNCHANGED <<notSip, sipCore, sipLog, sipDb, bridgePlaying, startPc, takeoverPc,
                 bridgePc>>

ReplyPlayed ==
  /\ turnPc = "t_play"
  /\ player' = None
  /\ turnPc' = "listen"
  /\ UNCHANGED <<notSip, sipCore, sipLog, sipDb, bridgePlaying, startPc, takeoverPc,
                 bridgePc>>

AlreadyTakenOver_Never(mute) == FALSE

\* The duplicate guard of _handle_takeover.
AlreadyTakenOver(mute) == mute /\ muted /\ livekit_bridge

TakeoverHead_StopFirst == <<"stop_playback", "mute">>

\* What callback(mute=True) does before its first await on the network:
\* self.muted = True, then _stop_playback.
TakeoverHead == <<"mute", "stop_playback">>

\* callback(mute=True): past the guard, self.muted = True, _stop_playback,
\* then the announcement's TTS request.  The callback is registered from
\* on_session_start to on_session_end.
TakeoverCommand ==
  /\ takeoverPc = "idle"
  /\ inSessions
  /\ commands < MaxCommands
  /\ commands' = commands + 1
  /\ IF AlreadyTakenOver(TRUE)
       THEN /\ lastCmd' = "takeover_already_active"
            /\ UNCHANGED <<muted, player, takeoverPc, steps>>
       ELSE /\ lastCmd' = "takeover"
            /\ muted' = TRUE
            /\ player' = None
            /\ takeoverPc' = "h_tts"
            /\ steps' = TakeoverHead
  /\ UNCHANGED <<notSip, sipDb, running, bridgePlaying, livekit_bridge, startPc, turnPc,
                 bridgePc, takeoverProcessed>>

AnnouncementSynthesized ==
  /\ takeoverPc = "h_tts"
  /\ \E audio \in BOOLEAN :
       /\ player' = IF audio THEN "announce" ELSE player
       /\ takeoverPc' = IF audio THEN "h_play" ELSE "h_conn"
       /\ livekit_bridge' = IF audio THEN livekit_bridge ELSE TRUE
       /\ steps' = IF audio THEN Append(steps, "announce") ELSE steps
  /\ UNCHANGED <<notSip, sipDb, lastCmd, running, muted, commands, takeoverProcessed,
                 bridgePlaying, startPc, turnPc, bridgePc>>

\* The announcement's _play_audio wakes; self.livekit_bridge is assigned a
\* new LiveKitAudioBridge, whose connect() is awaited.
AnnouncementPlayed ==
  /\ takeoverPc = "h_play"
  /\ player' = None
  /\ takeoverPc' = "h_conn"
  /\ livekit_bridge' = TRUE
  /\ UNCHANGED <<notSip, sipLog, sipDb, running, muted, commands, takeoverProcessed,
                 bridgePlaying, startPc, turnPc, bridgePc>>

\* livekit_bridge.connect() returns: the bridge task is created, or the
\* bridge is dropped with self.muted left TRUE.  The callback returns.  A
\* stop() that ran meanwhile has set self.livekit_bridge to None.
BridgeConnected ==
  /\ takeoverPc = "h_conn"
  /\ \E connected \in BOOLEAN :
       /\ livekit_bridge' = IF connected THEN livekit_bridge ELSE FALSE
       /\ bridgePc' = IF connected THEN "created" ELSE bridgePc
       /\ steps' = IF connected THEN Append(steps, "bridge_up") ELSE steps
  /\ takeoverPc' = "idle"
  /\ takeoverProcessed' = TRUE
  /\ UNCHANGED <<notSip, sipDb, lastCmd, running, muted, player, bridgePlaying, startPc,
                 turnPc, commands>>

\* The task made by create_task runs _run_audio_bridge up to its loop.
BridgeLoopStarts ==
  /\ bridgePc = "created"
  /\ bridgePc' = "loop"
  /\ steps' = Append(steps, "bridge_loop")
  /\ UNCHANGED <<notSip, sipCore, sipDb, lastCmd, player, bridgePlaying, startPc, turnPc,
                 takeoverPc>>

\* The bridge task finds `while self.muted and self.running` false and
\* returns through its finally.
BridgeLoopExits ==
  /\ bridgePc = "loop"
  /\ ~(muted /\ running)
  /\ bridgePc' = "none"
  /\ UNCHANGED <<notSip, sipCore, sipLog, sipDb, player, bridgePlaying, startPc, turnPc,
                 takeoverPc>>

\* callback(mute=False): self.muted = False; the bridge task is cancelled
\* and awaited, then the bridge is disconnected.
ReleaseCommand ==
  /\ takeoverPc = "idle"
  /\ inSessions
  /\ commands < MaxCommands
  /\ commands' = commands + 1
  /\ lastCmd' = "release"
  /\ steps' = <<"unmute_or_recreate">>
  /\ muted' = FALSE
  /\ takeoverProcessed' = FALSE
  /\ bridgePc' = IF bridgePc = "none" THEN "none" ELSE "cancelling"
  /\ takeoverPc' = IF bridgePc # "none" THEN "hr_wait"
                   ELSE IF livekit_bridge THEN "hr_disc" ELSE "idle"
  /\ UNCHANGED <<notSip, sipDb, running, player, bridgePlaying, livekit_bridge, startPc,
                 turnPc>>

\* CancelledError reaches the bridge task at its await; the player of
\* _play_bridge_audio goes with its frame.
BridgeCancelled ==
  /\ bridgePc = "cancelling"
  /\ bridgePc' = "none"
  /\ bridgePlaying' = FALSE
  /\ UNCHANGED <<notSip, sipCore, sipLog, sipDb, player, startPc, turnPc, takeoverPc>>

\* wait_for(self._bridge_audio_task) returns: the bridge task is gone.
ReleaseWaited ==
  /\ takeoverPc = "hr_wait"
  /\ bridgePc = "none"
  /\ takeoverPc' = IF livekit_bridge THEN "hr_disc" ELSE "idle"
  /\ steps' = Append(steps, "bridge_down")
  /\ UNCHANGED <<notSip, sipCore, sipDb, lastCmd, player, bridgePlaying, startPc, turnPc,
                 bridgePc>>

ReleaseDisconnected ==
  /\ takeoverPc = "hr_disc"
  /\ livekit_bridge' = FALSE
  /\ takeoverPc' = "idle"
  /\ steps' = Append(steps, "disconnect")
  /\ UNCHANGED <<notSip, sipDb, lastCmd, running, muted, player, bridgePlaying, startPc,
                 turnPc, bridgePc, commands, takeoverProcessed>>

\* _run_audio_bridge: while self.muted and self.running, buffered operator
\* audio is played to the caller by _play_bridge_audio.
BridgePlays ==
  /\ bridgePc = "loop"
  /\ muted /\ running /\ livekit_bridge
  /\ bridgePlaying' = TRUE
  /\ bridgePc' = "playing"
  /\ UNCHANGED <<notSip, sipCore, sipLog, sipDb, player, startPc, turnPc, takeoverPc>>

BridgePlayed ==
  /\ bridgePc = "playing"
  /\ bridgePlaying' = FALSE
  /\ bridgePc' = "loop"
  /\ UNCHANGED <<notSip, sipCore, sipLog, sipDb, player, startPc, turnPc, takeoverPc>>

\* stop(): self.running = False, the bridge task is cancelled and awaited.
\* The task of _conversation_loop is left alone: a turn in flight goes on.
StopCall ==
  /\ startPc # "init"
  /\ stopPc = "no"
  /\ running' = FALSE
  /\ bridgePc' = IF bridgePc = "none" THEN "none" ELSE "cancelling"
  /\ stopPc' = "st_bridge"
  /\ UNCHANGED <<notSip, sipLog, muted, player, bridgePlaying, livekit_bridge, startPc,
                 turnPc, takeoverPc, commands, takeoverProcessed, inSessions,
                 convStatus, turnNo, messages, transcripts, heard,
                 conversation_history>>

\* The bridge task is gone: livekit_bridge.disconnect(), then
\* guardian.on_session_end pops the session and unregisters the callback.
StopSessionEnd ==
  /\ stopPc = "st_bridge"
  /\ bridgePc = "none"
  /\ livekit_bridge' = FALSE
  /\ inSessions' = FALSE
  /\ stopPc' = "st_db"
  /\ UNCHANGED <<notSip, sipLog, running, muted, player, bridgePlaying, startPc, turnPc,
                 takeoverPc, bridgePc, commands, takeoverProcessed, convStatus,
                 turnNo, messages, transcripts, heard,
                 conversation_history>>

\* _end_conversation: the UPDATE sets status = 'completed'; its failure is
\* logged and swallowed.
StopConversationEnded ==
  /\ stopPc = "st_db"
  /\ \E ok \in BOOLEAN :
       convStatus' = IF ok /\ convStatus = "active" THEN "completed" ELSE convStatus
  /\ stopPc' = "stopped"
  /\ UNCHANGED <<notSip, sipCore, sipLog, player, bridgePlaying, startPc, turnPc,
                 takeoverPc, bridgePc, inSessions, turnNo, messages, transcripts, heard,
                 conversation_history>>

NextSip ==
  \/ StartCall \/ GreetingSynthesized \/ GreetingPlayed
  \/ TurnBegins \/ Transcribed \/ UserSaved \/ MutedBeforeLLM \/ LLMAnswered
  \/ AssistantSaved \/ MutedBeforeTTS \/ ReplySynthesized \/ ReplyPlayed
  \/ TakeoverCommand \/ AnnouncementSynthesized \/ AnnouncementPlayed \/ BridgeConnected
  \/ BridgeLoopStarts \/ BridgeLoopExits
  \/ ReleaseCommand \/ BridgeCancelled \/ ReleaseWaited \/ ReleaseDisconnected
  \/ BridgePlays \/ BridgePlayed
  \/ StopCall \/ StopSessionEnd \/ StopConversationEnded

SpecSip == Init /\ [][NextSip]_vars

(***************************************************************************)
(* Voice activity detection: the recorder appends 20 ms frames to          *)
(* record_file, _conversation_loop polls _check_vad, which reads what was  *)
(* appended since its last read.  Positions are counted in frames (320     *)
(* bytes) past the WAV header, and the file grows by whole frames.  The    *)
(* two thresholds of the source, 10 and 20 frames, are scaled down.        *)
(***************************************************************************)
min_speech_frames == 2
silence_threshold_frames == 2

\* the frames one recording may reach
MaxFrames == 7

\* The recorder writes one more frame.
FrameRecorded(f) ==
  /\ vadPc = "poll"
  /\ Len(recording) < MaxFrames
  /\ recording' = Append(recording, f)
  /\ UNCHANGED <<notVad, last_file_position, speech_detected, speech_frames,
                 silence_frames, vadPc>>

\* for i in range(0, len(new_audio) - frame_size, frame_size): of n frames
\* read, the frames at offsets 0 .. n-2 are classified; the last is not.
FramesSeen(new_audio) == SubSeq(new_audio, 1, Len(new_audio) - 1)

\* The loop body of _check_vad over the classified frames, on the state
\* <<speech_detected, speech_frames, silence_frames>>.
RECURSIVE Classify(_, _)
Classify(st, frames) ==
  IF frames = <<>> THEN st
  ELSE Classify(IF Head(frames) = "v" THEN <<TRUE, st[2] + 1, 0>>
                ELSE IF st[1] THEN <<st[1], st[2], st[3] + 1>>
                ELSE st,
                Tail(frames))

\* _check_vad with more than one frame appended since the last read; on
\* True the loop awaits _process_turn.
CheckVad ==
  /\ vadPc = "poll"
  /\ Len(recording) > last_file_position + 1
  /\ LET new_audio == SubSeq(recording, last_file_position + 1, Len(recording))
         st == Classify(<<speech_detected, speech_frames, silence_frames>>,
                        FramesSeen(new_audio))
     IN /\ last_file_position' = Len(recording)
        /\ speech_detected' = st[1]
        /\ speech_frames' = st[2]
        /\ silence_frames' = st[3]
        /\ vadPc' = IF st[1] /\ st[2] >= min_speech_frames
                       /\ st[3] >= silence_threshold_frames
                    THEN "turn" ELSE "poll"
  /\ UNCHANGED <<notVad, recording>>

\* _process_turn returns through _start_recording: a new file, the VAD
\* state reset.
TurnReturns ==
  /\ vadPc = "turn"
  /\ recording' = <<>>
  /\ last_file_position' = 0
  /\ speech_detected' = FALSE
  /\ speech_frames' = 0
  /\ silence_frames' = 0
  /\ vadPc' = "poll"
  /\ UNCHANGED notVad

NextVad ==
  \/ \E f \in {"v", "s"} : FrameRecorded(f)
  \/ CheckVad
  \/ TurnReturns

SpecVad == Init /\ [][NextVad]_vars

\* The place of x in the sequence order, 0 when it is not there.
Pos(order, x) ==
  IF \E i \in DOMAIN order : order[i] = x
    THEN CHOOSE i \in DOMAIN order : order[i] = x
    ELSE 0

(***************************************************************************)
(* The Guardian: VoxGuardian in a worker, from its construction to         *)
(* on_room_leave, and the risk part of GuardianBridge.on_transcript in the *)
(* SIP bridge.  Texts are sequences of characters; scores, sentiments and  *)
(* the threshold are in hundredths.  VADER's compound score is an input.   *)
(***************************************************************************)
\* analyze_text calls of one session
MaxAnalyzed == 3

\* analyze_text calls of one session when only the event log is followed
MaxLogged == 11

Utterances == {<<"h", "i">>, <<"u", "p", "s", "e", "t">>,
               <<"r", "e", "f", "u", "n", "d">>, <<"s", "u", "e">>,
               <<"i", "s", "s", "u", "e">>}

\* compound >= -0.3, between -0.5 and -0.3, below -0.5
Sentiments == {0, -40, -60}

\* keyword in text_lower
Contains(text, kw) ==
  \E i \in 1..(Len(text) - Len(kw) + 1) : SubSeq(text, i, i + Len(kw) - 1) = kw

\* RISK_KEYWORDS of the worker plugin, one keyword of each list.
RISK_KEYWORDS ==
  [critical |-> {<<"s", "u", "e">>},
   high |-> {<<"r", "e", "f", "u", "n", "d">>},
   medium |-> {<<"u", "p", "s", "e", "t">>}]

\* RISK_KEYWORDS of the SIP bridge, one or two keywords of each list.
SIP_RISK_KEYWORDS ==
  [critical |-> {<<"s", "u", "e">>},
   high |-> {<<"r", "e", "f", "u", "n", "d">>},
   medium |-> {<<"u", "p", "s", "e", "t">>, <<"i", "s", "s", "u", "e">>}]

risk_order == <<"low", "medium", "high", "critical">>

\* analyze_text's three keyword loops.
KeywordLevel(text) ==
  IF \E kw \in RISK_KEYWORDS.critical : Contains(text, kw) THEN "critical"
  ELSE IF \E kw \in RISK_KEYWORDS.high : Contains(text, kw) THEN "high"
  ELSE IF \E kw \in RISK_KEYWORDS.medium : Contains(text, kw) THEN "medium"
  ELSE "low"

score_map == [low |-> 10, medium |-> 40, high |-> 70, critical |-> 95]

\* The RiskScore of analyze_text: level and score after the sentiment boost.
RiskOf(text, sentiment) ==
  LET kw == KeywordLevel(text) IN
  IF ~enable_risk_detection THEN [level |-> "low", score |-> 10]
  ELSE IF sentiment < -50 /\ kw = "low" THEN [level |-> "medium", score |-> 50]
  ELSE IF sentiment < -30 /\ kw # "critical"
    THEN [level |-> kw,
          score |-> IF score_map[kw] + 15 > 100 THEN 100 ELSE score_map[kw] + 15]
  ELSE [level |-> kw, score |-> score_map[kw]]

HighestAfter_Latest(highest, level) == level

\* if risk_order.index(risk_level) > risk_order.index(highest): highest = risk_level
HighestAfter(highest, level) ==
  IF Pos(risk_order, level) > Pos(risk_order, highest) THEN level ELSE highest

should_intervene_Always(risk) ==
  enable_takeover /\ (risk.score >= auto_handoff_threshold \/ risk.level = "critical")

\* VoxGuardian.should_intervene
should_intervene(risk) ==
  IF ~enable_takeover THEN FALSE
  ELSE IF human_active THEN FALSE
  ELSE IF risk.score >= auto_handoff_threshold THEN TRUE
  ELSE risk.level = "critical"

\* get_guardian: the configuration is read from the environment.
GuardianCreated(takeover, detection, webhook, threshold) ==
  /\ gpc = "new"
  /\ gpc' = "ready"
  /\ enable_takeover' = takeover
  /\ enable_risk_detection' = detection
  /\ alert_webhook' = webhook
  /\ auto_handoff_threshold' = threshold
  /\ UNCHANGED <<notGuardian, human_active, message_count, highest_risk, risk_events,
                 handoff_triggered, max_risk_level, lastRisk, levelsSeen, sipSeen,
                 riskAlerts, takeoverHeld, sipPublished>>

\* on_room_join: self._session = SessionMetrics(), self._human_active = False
on_room_join ==
  /\ gpc = "ready"
  /\ gpc' = "joined"
  /\ human_active' = FALSE
  /\ message_count' = 0
  /\ highest_risk' = "low"
  /\ risk_events' = <<>>
  /\ handoff_triggered' = FALSE
  /\ lastRisk' = NoRisk
  /\ levelsSeen' = {}
  /\ riskAlerts' = 0
  /\ takeoverHeld' = FALSE
  /\ UNCHANGED sipPublished
  /\ UNCHANGED <<notGuardian, enable_takeover, enable_risk_detection, alert_webhook,
                 auto_handoff_threshold, max_risk_level, sipSeen>>

\* on_room_leave: self._session = None
on_room_leave ==
  /\ gpc = "joined"
  /\ gpc' = "ready"
  /\ UNCHANGED <<notGuardian, enable_takeover, enable_risk_detection, alert_webhook,
                 auto_handoff_threshold, human_active, message_count, highest_risk,
                 risk_events, handoff_triggered, max_risk_level, lastRisk,
                 levelsSeen, sipSeen, riskAlerts, takeoverHeld, sipPublished>>

\* on_user_transcript -> _analyze_user_text -> guardian.analyze_text(text):
\* the result is logged and dropped; should_intervene and trigger_handoff
\* have no caller.
analyze_text(text, sentiment, max) ==
  /\ gpc = "joined"
  /\ message_count < max
  /\ LET risk == RiskOf(text, sentiment)
         event == risk.level \in {"high", "critical"}
     IN /\ message_count' = message_count + 1
        /\ highest_risk' = HighestAfter(highest_risk, risk.level)
        /\ risk_events' = IF event THEN Append(risk_events, risk.level) ELSE risk_events
        /\ riskAlerts' = IF event /\ alert_webhook THEN riskAlerts + 1 ELSE riskAlerts
        /\ lastRisk' = risk
        /\ levelsSeen' = levelsSeen \cup {risk.level}
  /\ UNCHANGED <<notGuardian, gpc, enable_takeover, enable_risk_detection,
                 alert_webhook, auto_handoff_threshold, human_active,
                 handoff_triggered, max_risk_level, sipSeen, takeoverHeld, sipPublished>>

\* _handle_guardian_command, takeover: guardian.on_human_takeover(command)
on_human_takeover ==
  /\ gpc = "joined"
  /\ human_active' = TRUE
  /\ takeoverHeld' = TRUE
  /\ UNCHANGED sipPublished
  /\ UNCHANGED <<notGuardian, gpc, enable_takeover, enable_risk_detection,
                 alert_webhook, auto_handoff_threshold, message_count, highest_risk,
                 risk_events, handoff_triggered, max_risk_level, lastRisk,
                 levelsSeen, sipSeen, riskAlerts>>

\* _handle_guardian_command, release: guardian.on_human_release()
on_human_release ==
  /\ gpc = "joined"
  /\ human_active' = FALSE
  /\ takeoverHeld' = FALSE
  /\ UNCHANGED sipPublished
  /\ UNCHANGED <<notGuardian, gpc, enable_takeover, enable_risk_detection,
                 alert_webhook, auto_handoff_threshold, message_count, highest_risk,
                 risk_events, handoff_triggered, max_risk_level, lastRisk,
                 levelsSeen, sipSeen, riskAlerts>>

sip_risk_order == <<"LOW", "MEDIUM", "HIGH", "CRITICAL">>

\* GuardianBridge.detect_risk_keywords: the first level with a keyword in
\* the text, in upper case.
detect_risk_keywords(text) ==
  IF \E kw \in SIP_RISK_KEYWORDS.critical : Contains(text, kw) THEN "CRITICAL"
  ELSE IF \E kw \in SIP_RISK_KEYWORDS.high : Contains(text, kw) THEN "HIGH"
  ELSE IF \E kw \in SIP_RISK_KEYWORDS.medium : Contains(text, kw) THEN "MEDIUM"
  ELSE "LOW"

\* GuardianBridge.on_transcript: the session's max_risk_level.
\* GuardianBridge.on_transcript, its two publish_event calls: sentiment_update
\* always, risk_detected if risk_level != "low".
EventsPublished(risk_level) ==
  IF risk_level # "low" THEN <<"sentiment_update", "risk_detected">>
  ELSE <<"sentiment_update">>

\* GuardianBridge.on_transcript: the session's max_risk_level, the events.
SipTranscriptRisk(text) ==
  LET risk_level == detect_risk_keywords(text) IN
  /\ max_risk_level' =
       IF Pos(sip_risk_order, risk_level) > Pos(sip_risk_order, max_risk_level)
         THEN risk_level ELSE max_risk_level
  /\ sipSeen' = sipSeen \cup {risk_level}
  /\ sipPublished' = [level |-> risk_level, events |-> EventsPublished(risk_level)]
  /\ UNCHANGED <<notGuardian, gpc, enable_takeover, enable_risk_detection,
                 alert_webhook, auto_handoff_threshold, human_active, message_count,
                 highest_risk, risk_events, handoff_triggered, lastRisk, levelsSeen,
                 riskAlerts, takeoverHeld>>

NextGuardian ==
  \/ \E takeover, detection, webhook \in BOOLEAN, threshold \in {60, 80} :
       GuardianCreated(takeover, detection, webhook, threshold)
  \/ on_room_join
  \/ on_room_leave
  \/ \E text \in Utterances, sentiment \in Sentiments :
       analyze_text(text, sentiment, MaxAnalyzed)
  \/ on_human_takeover
  \/ on_human_release
  \/ \E text \in Utterances : SipTranscriptRisk(text)

SpecGuardian == Init /\ [][NextGuardian]_vars

\* One session in which every utterance is "refund" or "hi", followed for
\* the length of its event log.
NextRiskLog ==
  \/ \E webhook \in BOOLEAN : GuardianCreated(TRUE, TRUE, webhook, 80)
  \/ on_room_join
  \/ \E text \in {<<"h", "i">>, <<"r", "e", "f", "u", "n", "d">>} :
       analyze_text(text, 0, MaxLogged)

SpecRiskLog == Init /\ [][NextRiskLog]_vars

(***************************************************************************)
(* Webhook tools: webhook_handler calls execute_webhook(webhook, kwargs).   *)
(* A payload is a sequence of <<key, value>> pairs, JSON text a             *)
(* sequence of characters.  HMAC-SHA256 is taken to be free of collisions:  *)
(* the digest is the pair of its key and its message.                       *)
(***************************************************************************)
Methods == {"GET", "POST", "PUT", "PATCH", "DELETE", "OPTIONS"}
Secrets == {None, "s3cr3t"}
Payloads == {<<>>, << <<"a", "1">> >>, << <<"a", "1">>, <<"b", "2">> >>}

\* The members of a JSON object, with the separators given.
RECURSIVE Members(_, _, _)
Members(payload, item_sep, key_sep) ==
  IF payload = <<>> THEN <<>>
  ELSE <<Head(payload)[1]>> \o key_sep \o <<Head(payload)[2]>>
       \o (IF Len(payload) > 1 THEN item_sep ELSE <<>>)
       \o Members(Tail(payload), item_sep, key_sep)

\* json.dumps(payload): separators ", " and ": "
Dumps(payload) == <<"{">> \o Members(payload, <<",", " ">>, <<":", " ">>) \o <<"}">>

\* The body httpx makes of json=payload: json.dumps as above, or since httpx
\* 0.28 the compact form with separators "," and ":".
HttpxJson(payload, compact) ==
  IF compact THEN <<"{">> \o Members(payload, <<",">>, <<":">>) \o <<"}">>
  ELSE Dumps(payload)

\* What goes on the wire as the request body: client.get sends the payload
\* as query parameters, client.delete sends nothing.
BodySent(method, payload, compact) ==
  IF method \in {"GET", "DELETE"} THEN <<>> ELSE HttpxJson(payload, compact)

HMAC(secret, bytes) == <<secret, bytes>>

\* What the awaited request may end in: a 2xx answer whose content is a JSON
\* object, another JSON value, text that is not JSON, nothing, or bytes that
\* do not decode; a timeout; a non-2xx status; a connection error.
Outcomes == {"json_object", "json_value", "text", "empty", "UnicodeDecodeError",
             "TimeoutException", "HTTPStatusError", "ConnectError"}
Failures == {"TimeoutException", "HTTPStatusError", "ConnectError", "UnicodeDecodeError"}

Raised == [kind |-> "raised", text |-> None]
Returned(text) == [kind |-> "string", text |-> text]

ExceptClauses_NoCatchAll(exc) ==
  IF exc = "TimeoutException" THEN Returned("timed out after")
  ELSE IF exc = "HTTPStatusError" THEN Returned("failed with status")
  ELSE Raised

\* except httpx.TimeoutException / except httpx.HTTPStatusError /
\* except Exception, in that order.
ExceptClauses(exc) ==
  IF exc = "TimeoutException" THEN Returned("timed out after")
  ELSE IF exc = "HTTPStatusError" THEN Returned("failed with status")
  ELSE Returned("failed:")

\* The LLM calls the tool: the headers are prepared, the payload signed
\* when a secret is configured, and the request sent; a method the function
\* does not know is answered at once.
ToolCalled(method, secret, payload, compact) ==
  /\ hookPc = "idle"
  /\ hookReq' = [method |-> method, secret |-> secret, payload |-> payload,
                 signed |-> secret # None,
                 signature |-> IF secret # None THEN HMAC(secret, Dumps(payload))
                               ELSE <<>>,
                 body |-> BodySent(method, payload, compact),
                 outcome |-> None]
  /\ hookPc' = IF method = "OPTIONS" THEN "done" ELSE "sent"
  /\ hookResult' = IF method = "OPTIONS" THEN Returned("Unsupported HTTP method")
                   ELSE hookResult
  /\ UNCHANGED notHook

\* The request is over: raise_for_status, response.json(), the except
\* clauses.
ResponseArrives(outcome) ==
  /\ hookPc = "sent"
  /\ hookPc' = "done"
  /\ hookReq' = [hookReq EXCEPT !.outcome = outcome]
  /\ hookResult' =
       IF outcome \in Failures THEN ExceptClauses(outcome)
       ELSE IF outcome = "json_object" THEN Returned("json.dumps(result)")
       ELSE IF outcome = "json_value" THEN Returned("str(result)")
       ELSE IF outcome = "text" THEN Returned("response.text")
       ELSE Returned("Webhook succeeded")
  /\ UNCHANGED notHook

\* The tool result has gone to the LLM; the tool may be called again.
ToolReturned ==
  /\ hookPc = "done"
  /\ hookPc' = "idle"
  /\ hookReq' = NoRequest
  /\ hookResult' = NoResult
  /\ UNCHANGED notHook

NextWebhook ==
  \/ \E method \in Methods, secret \in Secrets, payload \in Payloads, compact \in BOOLEAN :
       ToolCalled(method, secret, payload, compact)
  \/ \E outcome \in Outcomes : ResponseArrives(outcome)
  \/ ToolReturned

SpecWebhook == Init /\ [][NextWebhook]_vars

(***************************************************************************)
(* The reply on its way to the TTS: _speak_response(text).  Lengths are     *)
(* scaled by 30: the budget of 180 characters is 6, the index 80 is 2.      *)
(***************************************************************************)
MaxText == 8
tts_budget == 6
min_cut == 2
Alphabet == {"a", ".", "?", "!"}

Max(S) == CHOOSE x \in S : \A y \in S : y <= x

\* str.rfind: the highest index (from 0) at which ch occurs in s, or -1
rfind(s, ch) == Max({i - 1 : i \in {j \in 1..Len(s) : s[j] = ch}} \cup {-1})

Truncate_PeriodFirst(text) ==
  IF Len(text) > tts_budget
  THEN LET cut_text == SubSeq(text, 1, tts_budget)
           last_period == rfind(cut_text, ".")
           last_question == rfind(cut_text, "?")
           last_exclaim == rfind(cut_text, "!")
           best_cut == IF last_period > min_cut THEN last_period
                       ELSE IF last_question > min_cut THEN last_question
                       ELSE last_exclaim
       IN  IF best_cut > min_cut THEN SubSeq(cut_text, 1, best_cut + 1)
           ELSE cut_text \o <<".", ".", ".">>
  ELSE text

\* The head of _speak_response: the text that goes to the TTS provider.
Truncate(text) ==
  IF Len(text) > tts_budget
  THEN LET cut_text == SubSeq(text, 1, tts_budget)
           last_period == rfind(cut_text, ".")
           last_question == rfind(cut_text, "?")
           last_exclaim == rfind(cut_text, "!")
           best_cut == Max({last_period, last_question, last_exclaim})
       IN  IF best_cut > min_cut THEN SubSeq(cut_text, 1, best_cut + 1)
           ELSE cut_text \o <<".", ".", ".">>
  ELSE text

\* The LLM's reply grows by one character.
ReplyGrows(ch) ==
  /\ ttsPc = "reply"
  /\ Len(ttsText) < MaxText
  /\ ttsText' = Append(ttsText, ch)
  /\ UNCHANGED <<ttsPc, ttsOut>>
  /\ UNCHANGED notTts

\* _speak_response(text), up to the call of the TTS provider.
_speak_response ==
  /\ ttsPc = "reply"
  /\ ttsPc' = "spoken"
  /\ ttsOut' = Truncate(ttsText)
  /\ UNCHANGED ttsText
  /\ UNCHANGED notTts

NextTts ==
  \/ \E ch \in Alphabet : ReplyGrows(ch)
  \/ _speak_response

SpecTts == Init /\ [][NextTts]_vars

(***************************************************************************)
(* The softphones of the bridge.  A softphone is a pj.Account: it is live  *)
(* from create() until shutdown() or until the Python object is freed.  An *)
(* object dropped from self.softphones is freed at once unless a call     *)
(* refers to it (onIncomingCall sets current_call, the call holds account).*)
(***************************************************************************)
\* manager.register_device: a new account, stored under the device id; the
\* object stored there before loses that reference.
RegisterDevice(d) ==
  /\ accountsCreated < MaxAccounts
  /\ accountsCreated' = accountsCreated + 1
  /\ accounts' =
       {a \in accounts : ~(a.n = softphones[d] /\ ~a.current_call)}
         \cup {[n |-> accountsCreated + 1, device |-> d, current_call |-> FALSE]}
  /\ softphones' = [softphones EXCEPT ![d] = accountsCreated + 1]

\* manager.unregister_device: shutdown() and del, or nothing.
UnregisterDevice(d) ==
  /\ accounts' = {a \in accounts : a.n # softphones[d]}
  /\ softphones' = [softphones EXCEPT ![d] = 0]
  /\ UNCHANGED accountsCreated

\* load_devices_from_db registers one more row of sip_devices.
LoadRow(d) ==
  /\ phase = "loading"
  /\ d \notin loaded
  /\ loaded' = loaded \cup {d}
  /\ RegisterDevice(d)
  /\ UNCHANGED <<phase, registering>>
  /\ UNCHANGED notDevices

\* Start-up is over: the HTTP server and the Redis listener run.
Serve ==
  /\ phase = "loading"
  /\ phase' = "serving"
  /\ UNCHANGED <<loaded, softphones, accounts, accountsCreated, registering>>
  /\ UNCHANGED notDevices

\* POST /devices/{id}/register: 400 if the id is in softphones, otherwise the
\* row is fetched and manager.register_device queued as a background task.
HttpRegister(d) ==
  /\ phase = "serving"
  /\ softphones[d] = 0
  /\ registering[d] < MaxQueued
  /\ registering' = [registering EXCEPT ![d] = @ + 1]
  /\ UNCHANGED <<phase, loaded, softphones, accounts, accountsCreated>>
  /\ UNCHANGED notDevices

\* The background task runs.
HttpRegisterRuns(d) ==
  /\ registering[d] > 0
  /\ registering' = [registering EXCEPT ![d] = @ - 1]
  /\ RegisterDevice(d)
  /\ UNCHANGED <<phase, loaded>>
  /\ UNCHANGED notDevices

\* A message on sip-bridge:register.
ChannelRegister(d) ==
  /\ phase = "serving"
  /\ RegisterDevice(d)
  /\ UNCHANGED <<phase, loaded, registering>>
  /\ UNCHANGED notDevices

\* POST /devices/{id}/unregister: 404 if the id is not in softphones.
HttpUnregister(d) ==
  /\ phase = "serving"
  /\ softphones[d] # 0
  /\ UnregisterDevice(d)
  /\ UNCHANGED <<phase, loaded, registering>>
  /\ UNCHANGED notDevices

\* A message on sip-bridge:unregister.
ChannelUnregister(d) ==
  /\ phase = "serving"
  /\ UnregisterDevice(d)
  /\ UNCHANGED <<phase, loaded, registering>>
  /\ UNCHANGED notDevices

\* onIncomingCall on a live account: current_call is set.
IncomingCall(k) ==
  /\ \E a \in accounts :
       /\ a.n = k
       /\ ~a.current_call
       /\ accounts' = (accounts \ {a}) \cup {[a EXCEPT !.current_call = TRUE]}
  /\ UNCHANGED <<phase, loaded, softphones, accountsCreated, registering>>
  /\ UNCHANGED notDevices

NextDevices ==
  \/ \E d \in Devices : LoadRow(d)
  \/ Serve
  \/ \E d \in Devices : HttpRegister(d)
  \/ \E d \in Devices : HttpRegisterRuns(d)
  \/ \E d \in Devices : ChannelRegister(d)
  \/ \E d \in Devices : HttpUnregister(d)
  \/ \E d \in Devices : ChannelUnregister(d)
  \/ \E k \in 1..MaxAccounts : IncomingCall(k)

SpecDevices == Init /\ [][NextDevices]_vars

(***************************************************************************)
(* The system prompt and the tools list agent_entrypoint builds for its    *)
(* Agent.  The prompt is the sequence of its parts.                        *)
(***************************************************************************)
\* What ctx.room.metadata may be: empty, not JSON, JSON without agentId,
\* JSON with agentId.
Metadata == {"empty", "invalid", "no_agent", "agent"}

\* tools = [push_ui], then one tool per webhook whose create_webhook_tool
\* did not raise.
ToolsBuilt(made) ==
  <<"push_ui">> \o [k \in 1..made |-> "webhook"]

\* Room metadata read; with an agent id check_agent_has_knowledge and
\* fetch_agent_webhooks; the prompt up to the Visual Voice suffix.
ReadMetadata(metadata, kb, n) ==
  /\ ppc = "metadata"
  /\ ppc' = "lessons"
  /\ agent_id' = (metadata = "agent")
  /\ has_knowledge_base' = (metadata = "agent" /\ kb)
  /\ webhooks' = IF metadata = "agent" THEN n ELSE 0
  /\ system_prompt' =
       <<"DEFAULT_SYSTEM_PROMPT">>
       \o (IF metadata = "agent" /\ kb THEN <<"KB_SYSTEM_PROMPT_SUFFIX">> ELSE <<>>)
       \o (IF metadata = "agent" /\ n > 0 THEN <<"WEBHOOK_PROMPT_SUFFIX">> ELSE <<>>)
       \o <<"VISUAL_VOICE_PROMPT_SUFFIX">>
  /\ UNCHANGED <<tools, agent>>
  /\ UNCHANGED notPrompt

\* fetch_approved_lessons: with lessons the adaptive memory is appended.
AddLessons(lessons) ==
  /\ ppc = "lessons"
  /\ ppc' = "tools"
  /\ system_prompt' = IF agent_id /\ lessons
                        THEN Append(system_prompt, "adaptive_memory")
                        ELSE system_prompt
  /\ UNCHANGED <<agent_id, has_knowledge_base, webhooks, tools, agent>>
  /\ UNCHANGED notPrompt

\* The TTS config is read and the tools list built.
BuildTools(made) ==
  /\ ppc = "tools"
  /\ made <= webhooks
  /\ ppc' = "agent"
  /\ tools' = ToolsBuilt(made)
  /\ UNCHANGED <<agent_id, has_knowledge_base, webhooks, system_prompt, agent>>
  /\ UNCHANGED notPrompt

\* Agent(instructions=system_prompt, ..., tools=tools)
CreateAgent ==
  /\ ppc = "agent"
  /\ ppc' = "started"
  /\ agent' = [instructions |-> system_prompt, tools |-> tools]
  /\ UNCHANGED <<agent_id, has_knowledge_base, webhooks, system_prompt, tools>>
  /\ UNCHANGED notPrompt

NextPrompt ==
  \/ \E metadata \in Metadata, kb \in BOOLEAN, n \in 0..MaxWebhooks :
       ReadMetadata(metadata, kb, n)
  \/ \E lessons \in BOOLEAN : AddLessons(lessons)
  \/ \E made \in 0..MaxWebhooks : BuildTools(made)
  \/ CreateAgent

SpecPrompt == Init /\ [][NextPrompt]_vars

(***************************************************************************)
(* The manager's call table and the sip_call_logs row of each call.        *)
(***************************************************************************)
\* A second passes.
Tick ==
  /\ clock < MaxClock
  /\ clock' = clock + 1
  /\ UNCHANGED <<active_calls, sip_call_logs, endedRuns>>
  /\ UNCHANGED notLog

\* on_incoming_call: the call enters active_calls, its row is inserted.
on_incoming_call(c) ==
  /\ sip_call_logs[c].status = "none"
  /\ active_calls' = active_calls \cup {c}
  /\ sip_call_logs' = [sip_call_logs EXCEPT ![c] =
                         [NoRow EXCEPT !.status = "answered", !.started_at = clock]]
  /\ UNCHANGED <<clock, endedRuns>>
  /\ UNCHANGED notLog

\* on_media_active, while the call is up: UPDATE ... SET answered_at = NOW(),
\* status = 'answered'
on_media_active(c) ==
  /\ sip_call_logs[c].status # "none"
  /\ endedRuns[c] = 0
  /\ sip_call_logs' = [sip_call_logs EXCEPT ![c].answered_at = clock,
                                            ![c].status = "answered"]
  /\ UNCHANGED <<clock, active_calls, endedRuns>>
  /\ UNCHANGED notLog

\* UPDATE sip_call_logs SET ended_at = NOW(), status = 'completed',
\* duration_secs = EXTRACT(EPOCH FROM (NOW() - started_at))::int
CallEndedRow(row, now) ==
  [row EXCEPT !.ended_at = now, !.status = "completed",
              !.duration_secs = now - row.started_at]

\* on_call_ended: the call leaves active_calls if it is there; its row is
\* updated.
on_call_ended(c) ==
  /\ sip_call_logs[c].status # "none"
  /\ endedRuns[c] < MaxEnded
  /\ endedRuns' = [endedRuns EXCEPT ![c] = @ + 1]
  /\ active_calls' = active_calls \ {c}
  /\ sip_call_logs' = [sip_call_logs EXCEPT ![c] = CallEndedRow(@, clock)]
  /\ UNCHANGED clock
  /\ UNCHANGED notLog

NextLog ==
  \/ Tick
  \/ \E c \in CallIds : on_incoming_call(c)
  \/ \E c \in CallIds : on_media_active(c)
  \/ \E c \in CallIds : on_call_ended(c)

SpecLog == Init /\ [][NextLog]_vars

(***************************************************************************)
(* start() and stop() of AIConversationHandler, cut at their awaits, for   *)
(* the calls of one device.  Both are scheduled on the event loop from     *)
(* pjsua callbacks (onCallMediaState, onCallState), so stop() may run      *)
(* while start() is suspended.                                             *)
(***************************************************************************)
\* start() begins: running = True, then it awaits the agent's config.
HandlerStarts(h) ==
  /\ hStart[h] = "new"
  /\ hStart' = [hStart EXCEPT ![h] = "fetch"]
  /\ UNCHANGED <<hStop, conversation_id, guardian_sessions, callbacks, device_callback>>
  /\ UNCHANGED notReg

\* The config is there; _create_conversation is awaited.
ConfigFetched(h) ==
  /\ hStart[h] = "fetch"
  /\ hStart' = [hStart EXCEPT ![h] = "create"]
  /\ UNCHANGED <<hStop, conversation_id, guardian_sessions, callbacks, device_callback>>
  /\ UNCHANGED notReg

\* _create_conversation returns; with a conversation_id on_session_start
\* stores the session and awaits its publish.
ConversationCreated(h, ok) ==
  /\ hStart[h] = "create"
  /\ conversation_id' = [conversation_id EXCEPT ![h] = ok]
  /\ guardian_sessions' = IF ok THEN guardian_sessions \cup {h} ELSE guardian_sessions
  /\ hStart' = [hStart EXCEPT ![h] = IF ok THEN "publish" ELSE "greet"]
  /\ UNCHANGED <<hStop, callbacks, device_callback>>
  /\ UNCHANGED notReg

\* session_start is published; register_takeover_callback; the greeting's
\* _speak_response is awaited.
CallbackRegistered(h) ==
  /\ hStart[h] = "publish"
  /\ callbacks' = callbacks \cup {h}
  /\ device_callback' = h
  /\ hStart' = [hStart EXCEPT ![h] = "greet"]
  /\ UNCHANGED <<hStop, conversation_id, guardian_sessions>>
  /\ UNCHANGED notReg

\* The greeting is over; the loop task is created and start() returns.
StartReturns(h) ==
  /\ hStart[h] = "greet"
  /\ hStart' = [hStart EXCEPT ![h] = "started"]
  /\ UNCHANGED <<hStop, conversation_id, guardian_sessions, callbacks, device_callback>>
  /\ UNCHANGED notReg

\* stop() begins (the call is disconnected): running = False, then it awaits
\* _stop_recording.
HandlerStops(h) ==
  /\ hStart[h] # "new"
  /\ hStop[h] = "no"
  /\ hStop' = [hStop EXCEPT ![h] = "recording"]
  /\ UNCHANGED <<hStart, conversation_id, guardian_sessions, callbacks, device_callback>>
  /\ UNCHANGED notReg

\* if guardian and self.conversation_id: on_session_end pops the session and
\* awaits redis.delete and publish_event.
StopEndsSession(h) ==
  /\ hStop[h] = "recording"
  /\ guardian_sessions' = IF conversation_id[h] THEN guardian_sessions \ {h} ELSE guardian_sessions
  /\ hStop' = [hStop EXCEPT ![h] = IF conversation_id[h] THEN "ending" ELSE "closing"]
  /\ UNCHANGED <<hStart, conversation_id, callbacks, device_callback>>
  /\ UNCHANGED notReg

\* self._device_callbacks.pop(device_id, None)
DevicePop(h) == None

\* on_session_end goes on: unregister_takeover_callback(conversation_id,
\* device_id); _end_conversation is awaited.
StopUnregisters(h) ==
  /\ hStop[h] = "ending"
  /\ callbacks' = callbacks \ {h}
  /\ device_callback' = DevicePop(h)
  /\ hStop' = [hStop EXCEPT ![h] = "closing"]
  /\ UNCHANGED <<hStart, conversation_id, guardian_sessions>>
  /\ UNCHANGED notReg

\* _end_conversation returns, the temp dir is removed: stop() has completed.
StopReturns(h) ==
  /\ hStop[h] = "closing"
  /\ hStop' = [hStop EXCEPT ![h] = "stopped"]
  /\ UNCHANGED <<hStart, conversation_id, guardian_sessions, callbacks, device_callback>>
  /\ UNCHANGED notReg

NextReg ==
  \/ \E h \in Handlers : HandlerStarts(h)
  \/ \E h \in Handlers : ConfigFetched(h)
  \/ \E h \in Handlers, ok \in BOOLEAN : ConversationCreated(h, ok)
  \/ \E h \in Handlers : CallbackRegistered(h)
  \/ \E h \in Handlers : StartReturns(h)
  \/ \E h \in Handlers : HandlerStops(h)
  \/ \E h \in Handlers : StopEndsSession(h)
  \/ \E h \in Handlers : StopUnregisters(h)
  \/ \E h \in Handlers : StopReturns(h)

SpecReg == Init /\ [][NextReg]_vars

(***************************************************************************)
(* VoxNexusCall: the PJSIP callbacks of one call and the handlers they     *)
(* create.  PJSIP calls onCallMediaState at every media change of the call *)
(* (answer, re-INVITE, hold, resume).                                      *)
(***************************************************************************)

HandlersMade == Cardinality({h \in HandlerIds : handlerState[h] # "none"})

\* onCallMediaState: for an active audio media a new AIConversationHandler
\* is created, assigned to self.ai_handler and its start() is scheduled;
\* getAudioMedia may raise, and an inactive media (hold) does nothing.
onCallMediaState(active, got) ==
  /\ ~callDisconnected
  /\ HandlersMade < MaxMedia
  /\ IF active /\ got
       THEN /\ media_connected' = TRUE
            /\ ai_handler' = HandlersMade + 1
            /\ handlerState' = [handlerState EXCEPT ![HandlersMade + 1] = "scheduled"]
       ELSE /\ media_connected' = (media_connected \/ active)
            /\ UNCHANGED <<ai_handler, handlerState>>
  /\ UNCHANGED <<notMedia, callDisconnected, stopScheduled>>

\* The loop runs a scheduled start(): self.running = True.
HandlerStartRuns(h) ==
  /\ handlerState[h] = "scheduled"
  /\ handlerState' = [handlerState EXCEPT ![h] = "running"]
  /\ UNCHANGED <<notMedia, callDisconnected, media_connected, ai_handler, stopScheduled>>

\* onCallState(DISCONNECTED): stop() of the handler self.ai_handler names
\* is scheduled and self.ai_handler is cleared.
onCallState ==
  /\ ~callDisconnected
  /\ callDisconnected' = TRUE
  /\ stopScheduled' = IF ai_handler # 0 THEN stopScheduled \cup {ai_handler} ELSE stopScheduled
  /\ ai_handler' = 0
  /\ UNCHANGED <<notMedia, media_connected, handlerState>>

\* The loop runs a scheduled stop(), after the start() that was queued
\* before it: self.running = False.
HandlerStopRuns(h) ==
  /\ h \in stopScheduled
  /\ handlerState[h] = "running"
  /\ handlerState' = [handlerState EXCEPT ![h] = "stopped"]
  /\ stopScheduled' = stopScheduled \ {h}
  /\ UNCHANGED <<notMedia, callDisconnected, media_connected, ai_handler>>

NextMedia ==
  \/ \E active \in BOOLEAN, got \in BOOLEAN : onCallMediaState(active, got)
  \/ \E h \in HandlerIds : HandlerStartRuns(h)
  \/ onCallState
  \/ \E h \in HandlerIds : HandlerStopRuns(h)

SpecMedia == Init /\ [][NextMedia]_vars



(***************************************************************************)
(* Claims about the worker.                                                *)
(***************************************************************************)
Running(w) == {s \in 1..Len(sessions[w]) : sessions[w][s] = "running"}

\* C4: of the dispatches received for one room at most one connects to the
\* room, whatever each dispatch's claim-room call returns.
C4_AtMostOneConnects == Cardinality({w \in Workers : everInRoom[w]}) <= 1

\* C7: from the moment a takeover has been handled until a release is
\* handled, no agent session runs and no local audio track is published.
C7_SilentWhileTakenOver ==
  \A w \in Workers : tkHandled[w] => (Running(w) = {} /\ tracks[w] = {})

\* C8: within one session the takeover or release branch runs at most once
\* for each (type, timestamp), however often the data message is delivered.
C8_AtMostOncePerId == \A w \in Workers : \A k \in CmdKeys : cmdRuns[w][k] <= 1

\* C8 witness: the same command was delivered twice, both handler tasks have
\* finished, and its branch ran once.
C8_Witness ==
  \E w \in Workers : \E i, j \in 1..Len(tasks[w]) :
    /\ i # j
    /\ tasks[w][i].pkt = tasks[w][j].pkt
    /\ tasks[w][i].pkt.topic = "guardian_command"
    /\ tasks[w][i].pc = "done" /\ tasks[w][j].pc = "done"
    /\ cmdRuns[w][CmdKey(tasks[w][i].pkt)] = 1

\* C9: a dispatch whose claim-room call answered "already held" has exited
\* before connecting, has published no audio and has made one claim call.
C9_HeldExits ==
  \A w \in Workers :
    (\E k \in 1..Len(claimLog[w]) : claimLog[w][k] = "held") =>
      /\ wpc[w] = "exited"
      /\ ~everInRoom[w]
      /\ sessions[w] = <<>> /\ tracks[w] = {}
      /\ Len(claimLog[w]) = 1

\* C9 witness: one dispatch holds the room and is connected, the other was
\* answered "held" and has exited.
C9_Witness ==
  \E w, v \in Workers :
    /\ claimLog[w] = <<"held">> /\ wpc[w] = "exited"
    /\ roomClaim = v /\ inRoom[v]

\* The worker was in the room, is disconnected, and no cleanup is pending.
SessionOver(w) ==
  /\ everInRoom[w] /\ ~inRoom[w]
  /\ wpc[w] \in {"active", "failed"}
  /\ cleanup[w] # "scheduled"

\* C10: a worker that obtained the room claim and connected has sent the
\* DELETE for it once its session is over, however the session ended.
C10_ClaimReleased ==
  \A w \in Workers :
    (claimLog[w] = <<"granted">> /\ roomClaim = w /\ SessionOver(w)) => deleteLog[w] >= 1

\* Every handler task of w has finished, the entrypoint has returned and the
\* worker is in the room.
Quiescent(w) ==
  /\ wpc[w] = "active" /\ inRoom[w]
  /\ \A i \in TaskIds(w) : tasks[w][i].pc = "done"

\* The last command received is a release that ran, after a takeover that ran.
ReleasedLast(w) ==
  /\ Len(tasks[w]) >= 2
  /\ tasks[w][Len(tasks[w])].pkt = Release2
  /\ cmdRuns[w][CmdKey(Release2)] = 1
  /\ \E i \in TaskIds(w) : tasks[w][i].pkt.type = "takeover"
                           /\ tasks[w][i].pkt.topic = "guardian_command"
                           /\ cmdRuns[w][CmdKey(tasks[w][i].pkt)] = 1

\* C11: once every handler task has finished and the last command received
\* was a release, an agent session is running again.
C11_RunningAfterRelease ==
  \A w \in Workers : (Quiescent(w) /\ ReleasedLast(w)) => Running(w) # {}

(***************************************************************************)
(* Claims about the takeover command bus.                                  *)
(***************************************************************************)
InCallback(x) == {p \in Procs : lpc[p] = "callback" /\ lmsg[p].conv = x}

\* C1: for every conversation id, at most one process at a time is inside
\* its command window running a takeover or release callback.
C1_OneCommandWindow == \A x \in Convs : Cardinality(InCallback(x)) <= 1

\* C2: the callback runs at most once for each published takeover command,
\* over all deliveries and all processes.
C2_TakeoverAtMostOnce ==
  \A k \in 1..Len(sent) : sent[k].command = "takeover" => cbRuns[sent[k].ts] <= 1

\* The listener of process p holds the lock and has a callback to call.
Calling(p) == lpc[p] \in {"callback", "finally"} /\ lcallback[p] # None

\* C5 as stated: a command naming conversation x calls only the callback of
\* the call whose conversation is x, and none when x is registered nowhere.
C5_OnlyNamedCall == \A p \in Procs : Calling(p) => lcallback[p] = lmsg[p].conv

\* C5 as amended: the process that takes the lock calls the callback
\* registered for x when it has one; otherwise the callback of the first
\* entry of its own device table; and none only when that table is empty.
C5_ExactElseFirstDevice ==
  [][\A p \in Procs :
       (lpc[p] = "idle" /\ lpc'[p] # "idle") =>
         LET x == lmsg'[p].conv
             convs == takeover_callbacks[p]
             devs == device_callbacks[p]
         IN /\ x \in convs => lcallback'[p] = x
            /\ (x \notin convs /\ devs # <<>>) =>
                 (lcallback'[p] = devs[1].cb /\ ProcOf(lcallback'[p]) = p)
            /\ (x \notin convs /\ devs = <<>>) => lcallback'[p] = None]_vars

\* C5 witness: a listener calls the callback of the first of two registered
\* device entries for a conversation that is not registered in its process.
C5_Witness ==
  \E p \in Procs :
    /\ Calling(p)
    /\ lmsg[p].conv \notin takeover_callbacks[p]
    /\ Len(device_callbacks[p]) = 2
    /\ lcallback[p] = device_callbacks[p][1].cb

(***************************************************************************)
(* Claims about one SIP call.                                              *)
(***************************************************************************)
\* C3: once a takeover has been processed for the call, no greeting and no
\* reply is played to the caller until a release.
C3_NoAIAudioAfterTakeover == takeoverProcessed => player \notin {"greeting", "reply"}

\* C6: the AI's player and the operator bridge's player never play to the
\* caller at the same time.
C6_OneProducer == ~(player # None /\ bridgePlaying)

\* Every entry of s is in order, and s goes through order left to right.
Ranked(s, order) ==
  /\ \A i \in DOMAIN s : Pos(order, s[i]) > 0
  /\ \A i, j \in DOMAIN s : i < j => Pos(order, s[i]) < Pos(order, s[j])

\* C12: a takeover callback goes through mute, stop_playback, announce,
\* bridge_up, bridge_loop in that order (a step whose TTS or connect fails is
\* left out); the loop starts only on a connected bridge, and the
\* announcement is played with the AI muted and no bridge task yet.
C12_TakeoverOrder ==
  /\ (steps # <<>> /\ lastCmd \in {"takeover", "takeover_already_active"}) =>
       /\ Ranked(steps, <<"mute", "stop_playback", "announce", "bridge_up", "bridge_loop">>)
       /\ Len(steps) >= 2 /\ steps[1] = "mute" /\ steps[2] = "stop_playback"
       /\ \A i \in DOMAIN steps : steps[i] = "bridge_loop" => steps[i - 1] = "bridge_up"
  /\ player = "announce" => (muted /\ bridgePc = "none")

C12_Witness ==
  steps = <<"mute", "stop_playback", "announce", "bridge_up", "bridge_loop">>

\* C13: a release callback goes through bridge_down, unpublish, disconnect,
\* unmute_or_recreate in that order: the AI is unmuted only after the bridge
\* task has ended and the bridge is disconnected.
C13_ReleaseOrder ==
  (steps # <<>> /\ lastCmd = "release") =>
    Ranked(steps, <<"bridge_down", "unpublish", "disconnect", "unmute_or_recreate">>)

\* C14: a takeover command handled while the call is muted with a live
\* bridge changes nothing of the handler: not the muted flag, the bridge or
\* the bridge task, no announcement is played, no step of a takeover is taken.
C14_DuplicateIsNoOp ==
  [][ (commands' = commands + 1 /\ lastCmd' \in {"takeover", "takeover_already_active"}
       /\ muted /\ livekit_bridge)
      => UNCHANGED <<muted, livekit_bridge, bridgePc, bridgePlaying, player,
                     takeoverPc, steps, running>> ]_vars

C14_Witness ==
  /\ lastCmd = "takeover_already_active"
  /\ muted /\ livekit_bridge /\ bridgePc \in {"created", "loop", "playing"}

\* C15: a held takeover lock becomes free again: a listener that took it
\* leaves its try block through the finally branch, which deletes the key,
\* whether a callback ran or none was found; if the process dies first, the
\* key expires.
C15_LockEventuallyFree ==
  /\ \A x \in Contended : lock[x] ~> ~lock[x]
  /\ \A p \in Procs : (lpc[p] \in {"callback", "finally"}) ~> (lpc[p] \in {"idle", "crashed"})
  /\ [][\A p \in Procs : (lpc[p] = "finally" /\ lpc'[p] = "idle") => ~lock'[lmsg[p].conv]]_vars

C15_Witness ==
  /\ \E p \in Procs : lpc[p] = "crashed"
  /\ \A x \in Contended : ~lock[x]
  /\ \E t \in 1..MaxPublish : cbRuns[t] > 0

\* C16: a command that finds the lock held is dropped by the process that
\* found it so: that process calls no callback for it, leaves the lock key
\* of the other process in place, and puts the command nowhere to be tried
\* again.
C16_LockedCommandDropped ==
  [][\A p \in Procs :
       (/\ lpc[p] = "idle" /\ inbox[p] # <<>>
        /\ lock[Head(inbox[p]).conv]
        /\ inbox'[p] = Tail(inbox[p]))
       => /\ lock' = lock
          /\ lpc' = lpc /\ lmsg' = lmsg /\ lcallback' = lcallback
          /\ cbRuns' = cbRuns
          /\ callMuted' = callMuted /\ callBridge' = callBridge
          /\ \A q \in Procs \ {p} : inbox'[q] = inbox[q]]_vars

C16_Witness ==
  \E p \in Procs, t \in 1..MaxPublish :
    /\ <<p, t>> \in dropped
    /\ inbox[p] = <<>> /\ lpc[p] = "idle"
    /\ cbRuns[t] = 1
    /\ \A x \in Contended : ~lock[x]

\* C17: no row is added to the messages of a conversation after it has been
\* marked completed, a turn in flight at stop() included.
C17_NoMessageAfterCompleted ==
  \A k \in DOMAIN messages : ~messages[k].late

\* C18: no two consecutive persisted messages have the same role.
C18_RolesAlternate ==
  \A k \in DOMAIN messages :
    k < Len(messages) => messages[k].role # messages[k + 1].role

\* C19: between turns, as many messages are persisted as transcripts were
\* published to the Guardian.
C19_CountsAgree ==
  turnPc = "listen" => Len(messages) = Len(transcripts)

\* C20: the k-th transcript published is the k-th message persisted.
C20_SameOrder ==
  \A k \in DOMAIN messages \cap DOMAIN transcripts :
    /\ messages[k].role = transcripts[k].role
    /\ messages[k].turn = transcripts[k].turn

\* The characters of t that are not blanks.
NonSpace(t) == Cardinality({i \in DOMAIN t : t[i] # " "})

\* The turn is past its transcription.
PastSTT == turnPc \in {"t_user", "t_saved", "t_llm", "t_reply", "t_answered", "t_tts", "t_play"}

Voiced(r) == Cardinality({i \in DOMAIN r : r[i] = "v"})
SilentTail(r) ==
  IF \E i \in DOMAIN r : r[i] = "v"
    THEN Len(r) - (CHOOSE i \in DOMAIN r : r[i] = "v" /\ \A j \in DOMAIN r : j > i => r[j] = "s")
    ELSE 0

\* C22: a recording with at least min_speech_frames voiced frames that ends
\* in an unbroken silence of the threshold, twice over, all of it read by
\* _check_vad, has had its turn scheduled: the loop is not still polling.
C22_EndOfSpeechScheduled ==
  (/\ last_file_position = Len(recording)
   /\ Voiced(recording) >= min_speech_frames
   /\ SilentTail(recording) >= 2 * silence_threshold_frames)
  => vadPc = "turn"

\* C23: a user utterance whose analysis makes the intervention predicate
\* true (no takeover in force, and score at the threshold or level critical)
\* has been followed by a handoff, or by a webhook alert when takeover is
\* disabled, once its analysis has returned.
C23_RiskLeadsToHandoff ==
  (/\ lastRisk # NoRisk
   /\ ~takeoverHeld
   /\ (lastRisk.score >= auto_handoff_threshold \/ lastRisk.level = "critical"))
  => IF enable_takeover THEN handoff_triggered ELSE riskAlerts > 0

\* Every RiskScore analyze_text can return.
Risks == {RiskOf(text, sentiment) : text \in Utterances, sentiment \in Sentiments}

C25_RiskMonotone ==
  /\ [](\A l \in levelsSeen : Pos(risk_order, highest_risk) >= Pos(risk_order, l))
  /\ [](\A l \in sipSeen : Pos(sip_risk_order, max_risk_level) >= Pos(sip_risk_order, l))
  /\ [][(gpc = "joined" /\ gpc' = "joined")
        => Pos(risk_order, highest_risk') >= Pos(risk_order, highest_risk)]_vars
  /\ [][Pos(sip_risk_order, max_risk_level') >= Pos(sip_risk_order, max_risk_level)]_vars

C25_Witness ==
  /\ highest_risk = "critical" /\ lastRisk.level = "low" /\ message_count = MaxAnalyzed
  /\ max_risk_level = "CRITICAL" /\ "LOW" \in sipSeen

\* C26: the risk-event log holds an event for a transcript iff its level is
\* high or critical, and never more than 10 events.
C26_LogCapped ==
  /\ (lastRisk # NoRisk /\ lastRisk.level \in {"high", "critical"})
       => (risk_events # <<>> /\ risk_events[Len(risk_events)] = lastRisk.level)
  /\ \A i \in DOMAIN risk_events : risk_events[i] \in {"high", "critical"}
  /\ Len(risk_events) <= 10

C28_SignatureVerifies ==
  (hookPc # "idle" /\ hookReq.secret # None) =>
    /\ hookReq.signed
    /\ hookReq.signature = HMAC(hookReq.secret, hookReq.body)

\* Indices (from 0) of the first 180 characters at which the text may be cut.
ValidCuts(text) ==
  {i \in (min_cut + 1)..(tts_budget - 1) : text[i + 1] \in {".", "?", "!"}}

\* The cut that prefers "." over "?" over "!", each at its rightmost valid index.
PreferredCut(text) ==
  LET at(ch) == {i \in ValidCuts(text) : text[i + 1] = ch}
  IN  IF at(".") # {} THEN Max(at("."))
      ELSE IF at("?") # {} THEN Max(at("?"))
      ELSE Max(at("!"))

\* C29: a text longer than 180 characters that has a sentence boundary between
\* positions 80 and 180 is cut there, at the rightmost "." if there is one,
\* else the rightmost "?", else the rightmost "!"; a text of exactly 180
\* characters is not truncated.
C29_PrefersPeriod ==
  ttsPc = "spoken" =>
    /\ (Len(ttsText) > tts_budget /\ ValidCuts(ttsText) # {}) =>
         ttsOut = SubSeq(ttsText, 1, PreferredCut(ttsText) + 1)
    /\ Len(ttsText) = tts_budget => ttsOut = ttsText

\* C29 (amended): a text longer than 180 characters is cut after the rightmost
\* ".", "?" or "!" of its first 180 characters, whichever of the three it is,
\* when that character's index is above 80; otherwise it is its first 180
\* characters followed by "..."; a text of at most 180 characters is not
\* truncated.
C29_RightmostBoundary ==
  ttsPc = "spoken" =>
    /\ (Len(ttsText) > tts_budget /\ ValidCuts(ttsText) # {}) =>
         ttsOut = SubSeq(ttsText, 1, Max(ValidCuts(ttsText)) + 1)
    /\ (Len(ttsText) > tts_budget /\ ValidCuts(ttsText) = {}) =>
         ttsOut = SubSeq(ttsText, 1, tts_budget) \o <<".", ".", ".">>
    /\ Len(ttsText) <= tts_budget => ttsOut = ttsText

C29_Witness ==
  /\ ttsPc = "spoken"
  /\ Len(ttsText) > tts_budget
  /\ ttsText[4] = "."
  /\ ttsText[6] = "!"
  /\ ttsOut = SubSeq(ttsText, 1, 6)

\* C30: once stop() has been called the engine emits no transcript and makes
\* no LLM call, a turn in flight included.
C30_TerminatedAbsorbing ==
  [][stopPc # "no" =>
       /\ ~(turnPc = "t_saved" /\ turnPc' = "t_llm")
       /\ transcripts' = transcripts]_vars

\* The (role, turn) pairs of a sequence of rows or entries.
RolesOf(rows) == [k \in DOMAIN rows |-> <<rows[k].role, rows[k].turn>>]

\* C31: between turns the entries of the in-process history are the rows of
\* the messages table, in the same order.
C31_HistoryMirrored ==
  turnPc = "listen" => RolesOf(conversation_history) = RolesOf(messages)

\* C32: every transcript the Supervisor analyses is followed by
\* sentiment_update, and by risk_detected only when its level is above LOW.
C32_RiskEventOnlyAboveLow ==
  sipPublished.level # "none" =>
    /\ \E k \in DOMAIN sipPublished.events : sipPublished.events[k] = "sentiment_update"
    /\ (\E k \in DOMAIN sipPublished.events : sipPublished.events[k] = "risk_detected")
         => sipPublished.level # "LOW"

\* C33: every device id has at most one live softphone account, and every
\* live account is the one self.softphones holds for its device.
C33_OneSoftphonePerExtension ==
  /\ \A d \in Devices : Cardinality({a \in accounts : a.device = d}) <= 1
  /\ \A a \in accounts : softphones[a.device] = a.n

\* x occurs in the sequence s
Among(s, x) == \E k \in DOMAIN s : s[k] = x

\* C34: the Agent's instructions hold the knowledge-base suffix iff the
\* knowledge-retrieval tool is among its tools, and the webhook suffix iff a
\* webhook tool is.
C34_SuffixIffTool ==
  ppc = "started" =>
    /\ Among(agent.instructions, "KB_SYSTEM_PROMPT_SUFFIX")
         <=> Among(agent.tools, "search_knowledge_base")
    /\ Among(agent.instructions, "WEBHOOK_PROMPT_SUFFIX")
         <=> Among(agent.tools, "webhook")

\* C35: a run of on_call_ended for a call it has already ended leaves the
\* active-call table and the call's row (status, end timestamp, duration) as
\* they were.
C35_CallEndedIdempotent ==
  [][\A c \in CallIds :
       (endedRuns[c] >= 1 /\ endedRuns'[c] = endedRuns[c] + 1)
         => (active_calls' = active_calls /\ sip_call_logs'[c] = sip_call_logs[c])]_vars

\* C36: when a takeover callback has returned and left the call muted, the
\* operator bridge is connected and its loop task exists.
C36_MutedHasOperatorPath ==
  (takeoverPc = "idle" /\ takeoverProcessed /\ muted /\ stopPc = "no") =>
    (livekit_bridge /\ bridgePc \in {"created", "loop", "playing"})

\* C37: once stop() has completed for a call none of its callbacks is
\* registered, under its conversation id or its device id; and the device
\* callback of a call that has not been stopped is never removed.
C37_NoCallbackAfterStop ==
  /\ [](\A h \in Handlers :
          hStop[h] = "stopped" => (h \notin callbacks /\ device_callback # h))
  /\ [][\A h \in Handlers :
          (device_callback = h /\ hStop[h] = "no") => device_callback' # None]_vars

\* C38: once stop() has completed the call has no connected LiveKit bridge
\* and no bridge task.
C38_NoBridgeAfterStop ==
  stopPc = "stopped" => (~livekit_bridge /\ bridgePc = "none")

\* C39: a call never has two AIConversationHandlers running at once: a
\* second media-active callback does not start a handler while an earlier
\* one is still running.
C39_OneRunningHandler ==
  Cardinality({h \in HandlerIds : handlerState[h] = "running"}) <= 1

\* C40: once a takeover or release command has been processed, the
\* session's human_active flag is true exactly when the call is muted with
\* the operator bridge up.
C40_HumanActiveTracksCall ==
  (takeoverPc = "idle" /\ takeoverProcessed) =>
    (session_human_active <=> (muted /\ livekit_bridge))

====
